---- MODULE Spec2Model ----
(***************************************************************************)
(* Job application automation: the pipeline orchestrator (main.py), the    *)
(* form filler (modules/form_filler.py), the application log               *)
(* (modules/excel_writer.py) and the adaptive form filler                  *)
(* (modules/adaptive_form_filler.py).                                      *)
(*                                                                         *)
(* Spec          one run of JobAutomationPipeline.run over a company list  *)
(* SpecAdaptive  one call of AdaptiveFormFiller.fill_application           *)
(***************************************************************************)
EXTENDS Integers, Sequences, FiniteSets, TLC

\* ------------------------------------------------------------------ bounds
MaxCompanies == 2
\* jobs scraped over the whole run
MaxJobs == 2
\* fields in the mapping of an adaptive fill
MaxFields == 2
\* inputs in the inventory of a page
MaxInputs == 2
\* postings handed to the relevance filter
MaxPostings == 3
\* add_application calls on the log
MaxCalls == 2
\* Most user interrupts delivered during one program run.
MaxInterrupts == 1
\* Most postings one extraction strategy finds on a career page.
MaxScraped == 1
\* Largest max_retries passed or configured.
MaxRetries == 3
\* Largest base delay, in seconds.
MaxDelay == 2

\* --------------------------------------------------------------- constants
\* config.py: the closed set of application statuses
STATUS_SUCCESS == "[SUCCESS] Applied Successfully"
STATUS_MANUAL == "[MANUAL] Manual Intervention Required"
STATUS_FAILED == "[FAILED] Failed"
STATUS_NO_JOBS == "[INFO] No Relevant Jobs Found"
STATUS_NO_CAREER_PAGE == "[WARNING] Career Page Not Found"
STATUS_ERROR == "[ERROR] Error Occurred"

Statuses ==
  {STATUS_SUCCESS, STATUS_MANUAL, STATUS_FAILED,
   STATUS_NO_JOBS, STATUS_NO_CAREER_PAGE, STATUS_ERROR}

\* form_filler.py: _find_submit_button tries six selectors, _submit_form the
\* first four of them
NumFindSelectors == 6
NumSubmitSelectors == 4

\* adaptive_form_filler.py: _find_and_click_submit tries twelve patterns,
\* _fill_adaptive four selectors per field
NumSubmitPatterns == 12
NumFieldSelectors == 4

\* excel_writer.py: add_application keeps the first 500 characters of the
\* job description
DescLimit == 500

VARIABLES
  \* ---- pipeline (main.py)
  argsTest,        \* args.test, the --test flag
  TEST_MODE,       \* config.TEST_MODE, from the environment
  enabled,         \* ResumeModifier.enabled, set at construction
  test_mode,       \* JobAutomationPipeline.test_mode
  numCompanies,    \* len(companies); company i is the i-th list entry
  pc,              \* position of the run
  idx,             \* run(): index of the company being processed
  result,          \* process_company: result dictionary
  career_url,      \* process_company: career page found
  jobs,            \* process_company: scraped jobs
  jobIdx,          \* process_company: index of the job being processed
  customized_resume, \* process_job: resume path in use
  form_result,     \* process_job: result of fill_application_form
  job_result,      \* process_job: result dictionary, 'success' key
  status,          \* process_job: status to be logged for the job
  logFile,         \* the persisted applications_log.xlsx, a sequence of rows
  \* ---- history of the run
  trace,           \* steps performed for the current company, in order
  invoked,         \* companies process_company was invoked for, in order
  raisedAt,        \* step whose exception reached process_company's handler
  jobRaised,       \* jobs of the current company whose process_job caught an exception
  jobOutcome,      \* per job of the current company: what process_job returned as success
  clicked,         \* companies for which a submit control was clicked
  ioFailed,        \* some spreadsheet read or write of the run has failed
  scraped,         \* number of jobs scraped so far in the run
  \* ---- adaptive form filler (modules/adaptive_form_filler.py)
  apc,             \* position of fill_application
  resume_path,     \* fill_application: a resume path was given
  app_type,        \* fill_application: detected application system
  page_analysis,   \* fill_application / _fill_known_system: page analysis
  field_mapping,   \* _fill_adaptive: fields still to be filled
  filled_count,    \* _fill_adaptive: fields filled
  patternIdx,      \* _find_and_click_submit: submit pattern being tried
  submit_found,    \* _fill_adaptive: result of the submit search
  aresult,         \* fill_application: the returned dictionary
  atrace,          \* browser actions of the attempt, in order
  \* ---- field mapper (modules/ai_form_analyzer.py, get_field_mapping)
  mpc,             \* position of get_field_mapping
  user_name,       \* user_data['name'], a sequence of characters
  inputs,          \* elements['inputs'] still to be mapped
  field_map,       \* field_mapping: sequence of <<field_id, value>> entries
  mhist,           \* per input handled: the input and the category it matched
  \* ---- relevance filter (modules/job_scraper.py, _filter_relevant_jobs)
  fpc,             \* position of _filter_relevant_jobs
  keywords,        \* JOB_RELEVANCE_KEYWORDS
  postings,        \* the jobs argument
  relevant_jobs,   \* the returned list
  \* ---- application log (modules/excel_writer.py)
  lpc,             \* position of the log's user
  submitted,       \* application_data of the add_application calls, in order
  readback,        \* what get_all_applications returned
  stats,           \* what get_statistics returned
  \* ---- entry point (main.py, main)
  npc,             \* position of main()
  env,             \* command line and environment of the program start
  errors,          \* validate_environment: the errors found
  sample_written,  \* create_companies_csv was called
  dirs_ensured,    \* ensure_directories was called
  browser_started, \* the browser was started
  companies,       \* len(companies) read from the company file
  processed,       \* companies handed to process_company
  cleanups,        \* calls of pipeline.cleanup
  interrupts,      \* user interrupts delivered to the program
  late,            \* companies whose processing began after an interrupt
  \* ---- one attempt on a given page (modules/adaptive_form_filler.py)
  kpc,             \* position of the caller of fill_application
  kpage,           \* what the page answers to each browser request
  ktype,           \* what detect_application_type returns for the page
  kresume,         \* a resume path is passed
  kout,            \* the returned dictionary and the actions performed
  \* ---- page analyzer (modules/ai_form_analyzer.py)
  zpc,             \* position of the analyzer's caller
  zpage,           \* the page in the browser: URL, HTML, file input present
  zfails,          \* which page reads fail and which calls raise inside
  ztype,           \* what detect_application_type returned
  zanalysis,       \* what analyze_page returned
  \* ---- career finder (modules/career_finder.py)
  cpc,             \* position of find_career_page
  cpath,           \* _try_common_career_urls: index of the path being probed
  ctried,          \* the tiers attempted, in order
  found_url,       \* what find_career_page returned: the tier and path that accepted
  cfailed,         \* the steps at which a navigation or network failure occurred
  \* ---- job scraper (modules/job_scraper.py, scrape_jobs)
  spc,             \* position of scrape_jobs
  spage,           \* what each extraction strategy finds on the career page
  skeywords,       \* JOB_RELEVANCE_KEYWORDS
  sjobs,           \* scrape_jobs: the list jobs
  sran,            \* the strategies run, in order
  shanded,         \* the list handed to _filter_relevant_jobs, if it was called
  sreturned,       \* what scrape_jobs returned
  \* ---- retry wrappers (BrowserManager.retry_action, helpers.async_retry)
  rpc,             \* position of the wrapper
  rwrapper,        \* which wrapper is called
  rpassed,         \* the max_retries argument: whether given, and its value
  rconfig,         \* AUTOMATION_CONFIG["max_retries"]
  rdelay,          \* the base delay, in seconds
  rattempt,        \* the loop variable attempt
  routcomes,       \* the outcome of each invocation of the action, in order
  rsleeps,         \* the durations slept, in order
  rresult          \* how the wrapper ended

pvars ==
  <<argsTest, TEST_MODE, test_mode, enabled, numCompanies, pc, idx, result, career_url,
    jobs, jobIdx, customized_resume, form_result, job_result, status, logFile,
    trace,
    invoked, raisedAt, jobRaised, jobOutcome, clicked, ioFailed, scraped>>

avars ==
  <<apc, resume_path, app_type, page_analysis, field_mapping, filled_count,
    patternIdx, submit_found, aresult, atrace>>

mvars == <<mpc, user_name, inputs, field_map, mhist>>

fvars == <<fpc, keywords, postings, relevant_jobs>>

lvars == <<lpc, submitted, readback, stats>>

nvars ==
  <<npc, env, errors, sample_written, dirs_ensured, browser_started, companies,
    processed, cleanups, interrupts, late>>

\* The interrupt bookkeeping of main().
ivars == <<interrupts, late>>

\* One attempt of the adaptive form filler on a given page.
kvars == <<kpc, kpage, ktype, kresume, kout>>

\* The page analyzer called on a given page.
zvars == <<zpc, zpage, zfails, ztype, zanalysis>>

\* One search for the career page of a company.
cvars == <<cpc, cpath, ctried, found_url, cfailed>>

\* One scrape of a career page.
svars == <<spc, spage, skeywords, sjobs, sran, shanded, sreturned>>

\* One call of a retry wrapper.
rvars == <<rpc, rwrapper, rpassed, rconfig, rdelay, rattempt, routcomes,
           rsleeps, rresult>>

\* The components each checked on its own.
xvars == <<kvars, zvars, cvars, svars, rvars>>

uvars == <<mvars, fvars, lvars, nvars, xvars>>

\* Everything but the variables of one component.
not_mvars == <<pvars, avars, fvars, lvars, nvars, xvars>>
not_fvars == <<pvars, avars, mvars, lvars, nvars, xvars>>
pvars_but_log ==
  <<argsTest, TEST_MODE, test_mode, enabled, numCompanies, pc, idx, result, career_url,
    jobs, jobIdx, customized_resume, form_result, job_result, status, trace,
    invoked, raisedAt, jobRaised, jobOutcome, clicked, scraped>>
not_lvars == <<pvars_but_log, avars, mvars, fvars, nvars, xvars>>
not_nvars == <<pvars_but_log, avars, mvars, fvars, lvars, xvars>>
not_xvars == <<pvars, avars, mvars, fvars, lvars, nvars>>
not_kvars == <<not_xvars, zvars, cvars, svars, rvars>>
not_zvars == <<not_xvars, kvars, cvars, svars, rvars>>
not_cvars == <<not_xvars, kvars, zvars, svars, rvars>>
not_svars == <<not_xvars, kvars, zvars, cvars, rvars>>
not_rvars == <<not_xvars, kvars, zvars, cvars, svars>>

vars == <<pvars, avars, uvars>>

\* ------------------------------------------------------- application log
\* One row of the log: the company, the job (0 for a company-level row), the
\* status and the resume path.
Row(c, j, st, resume) == [company |-> c, job |-> j, status |-> st, resume |-> resume]

IOOutcomes == {"ok", "read_fail", "write_fail"}

\* ExcelWriter.add_application: read the file (or start empty when the read
\* fails), append the row, rewrite the file; any failure of the write is
\* swallowed and leaves the file as it was.
add_application(file, row, io) ==
  LET df == IF io = "read_fail" THEN <<>> ELSE file
      new == Append(df, row)
  IN IF io = "write_fail" THEN file ELSE new

\* An event of the history.
Ev(name, j, st) == [ev |-> name, job |-> j, status |-> st]

\* The call self.excel_writer.add_application(row) made after the steps tr.
AddApplication(row, tr) ==
  \E io \in IOOutcomes :
    /\ logFile' = add_application(logFile, row, io)
    /\ ioFailed' = (ioFailed \/ io # "ok")
    /\ trace' = Append(tr, Ev("add_application", row.job, row.status))

\* ------------------------------------------------------------ form filler
\* What the browser meets at an application URL: whether navigation succeeds,
\* whether an exception is raised while the form is handled, which of the
\* submit selectors resolve to an element, and whether a click on one succeeds.
MatchSets ==
  {{}} \cup {{s} : s \in {1, NumSubmitSelectors, NumSubmitSelectors + 1, NumFindSelectors}}

Pages == [nav : BOOLEAN, error : BOOLEAN, matches : MatchSets, clickOK : BOOLEAN]

\* FormFiller._find_submit_button: some selector of the six resolves.
find_submit_button(page) == \E s \in 1..NumFindSelectors : s \in page.matches

\* FormFiller._submit_form: clicks the first of its four selectors that resolves
\* and whose click does not raise; true iff a click was made.
submit_form(page) ==
  \E s \in 1..NumSubmitSelectors : s \in page.matches /\ page.clickOK

\* FormFiller.fill_application_form, reading config.TEST_MODE (tm).
\* 'clicked' records whether human_click was executed on a submit selector.
fill_application_form(page, tm) ==
  IF ~page.nav \/ page.error
    THEN [success |-> FALSE, manual_required |-> FALSE, clicked |-> FALSE]
  ELSE IF tm
    THEN [success |-> TRUE, manual_required |-> FALSE, clicked |-> FALSE]
  ELSE IF find_submit_button(page)
    THEN IF submit_form(page)
           THEN [success |-> TRUE, manual_required |-> FALSE, clicked |-> TRUE]
           ELSE [success |-> FALSE, manual_required |-> TRUE, clicked |-> FALSE]
    ELSE [success |-> FALSE, manual_required |-> TRUE, clicked |-> FALSE]

NoFormResult == [success |-> FALSE, manual_required |-> FALSE, clicked |-> FALSE]

\* process_job: the status logged for a form result.
job_status(fr) ==
  IF fr.success THEN STATUS_SUCCESS
  ELSE IF fr.manual_required THEN STATUS_MANUAL
  ELSE STATUS_FAILED


\* --------------------------------------------------- adaptive form filler
NoAnalysis == [empty |-> TRUE, has_file_upload |-> FALSE]

NoAResult == [status |-> "", reason |-> "", has_fields_filled |-> FALSE,
              fields_filled |-> 0, submitted |-> FALSE]

\* No adaptive fill is in progress.
AdaptiveIdle ==
  /\ apc = "idle"
  /\ resume_path = FALSE
  /\ app_type = ""
  /\ page_analysis = NoAnalysis
  /\ field_mapping = <<>>
  /\ filled_count = 0
  /\ patternIdx = 0
  /\ submit_found = FALSE
  /\ aresult = NoAResult
  /\ atrace = <<>>

\* No field mapping is in progress.
MapperIdle ==
  /\ mpc = "idle"
  /\ user_name = <<>>
  /\ inputs = <<>>
  /\ field_map = <<>>
  /\ mhist = <<>>

\* No relevance filtering is in progress.
FilterIdle ==
  /\ fpc = "idle"
  /\ keywords = <<>>
  /\ postings = <<>>
  /\ relevant_jobs = <<>>

\* `k in s` for strings, as contains; declared here for the statistics.
str_contains(s, k) ==
  \/ k = <<>>
  \/ \E i \in 1..(Len(s) - Len(k) + 1) : SubSeq(s, i, i + Len(k) - 1) = k

\* The characters of a status text of config.py.
status_text(st) ==
  CASE
       st = STATUS_SUCCESS ->
         <<"[", "S", "U", "C", "C", "E", "S", "S", "]", " ", "A", "p", "p", "l", "i", "e", "d", " ", "S", "u", "c", "c", "e", "s", "s", "f", "u", "l", "l", "y">>
    [] st = STATUS_MANUAL ->
         <<"[", "M", "A", "N", "U", "A", "L", "]", " ", "M", "a", "n", "u", "a", "l", " ", "I", "n", "t", "e", "r", "v", "e", "n", "t", "i", "o", "n", " ", "R", "e", "q", "u", "i", "r", "e", "d">>
    [] st = STATUS_FAILED ->
         <<"[", "F", "A", "I", "L", "E", "D", "]", " ", "F", "a", "i", "l", "e", "d">>
    [] st = STATUS_NO_JOBS ->
         <<"[", "I", "N", "F", "O", "]", " ", "N", "o", " ", "R", "e", "l", "e", "v", "a", "n", "t", " ", "J", "o", "b", "s", " ", "F", "o", "u", "n", "d">>
    [] st = STATUS_NO_CAREER_PAGE ->
         <<"[", "W", "A", "R", "N", "I", "N", "G", "]", " ", "C", "a", "r", "e", "e", "r", " ", "P", "a", "g", "e", " ", "N", "o", "t", " ", "F", "o", "u", "n", "d">>
    [] st = STATUS_ERROR ->
         <<"[", "E", "R", "R", "O", "R", "]", " ", "E", "r", "r", "o", "r", " ", "O", "c", "c", "u", "r", "r", "e", "d">>

\* get_statistics: len(df[df['Application Status'].str.contains(word)])
count_containing(file, word) ==
  Cardinality({i \in DOMAIN file : str_contains(status_text(file[i].status), word)})

\* get_statistics has not been called.
NoStats == [read |-> FALSE]

\* get_statistics: the counts over the log, {} when the file cannot be read.
get_statistics(file, ok) ==
  IF ~ok THEN [read |-> TRUE, empty |-> TRUE]
  ELSE [read |-> TRUE, empty |-> FALSE,
        total_applications |-> Len(file),
        successful |-> count_containing(file, <<"S", "u", "c", "c", "e", "s", "s", "f", "u", "l", "l", "y">>),
        manual_required |-> count_containing(file, <<"M", "a", "n", "u", "a", "l">>),
        failed |-> count_containing(file, <<"F", "a", "i", "l", "e", "d">>),
        no_jobs |-> count_containing(file, <<"N", "o", " ", "R", "e", "l", "e", "v", "a", "n", "t", " ", "J", "o", "b", "s">>),
        no_career_page |-> count_containing(file, <<"C", "a", "r", "e", "e", "r", " ", "P", "a", "g", "e", " ", "N", "o", "t", " ", "F", "o", "u", "n", "d">>)]

\* Nothing but the pipeline uses the log.
LogIdle ==
  /\ lpc = "idle"
  /\ submitted = <<>>
  /\ readback = <<>>
  /\ stats = NoStats

\* main() is not modelled: the pipeline object exists.
MainIdle ==
  /\ npc = "idle"
  /\ env = [create_sample |-> FALSE]
  /\ errors = {}
  /\ sample_written = FALSE
  /\ dirs_ensured = FALSE
  /\ browser_started = FALSE
  /\ companies = 0
  /\ processed = 0
  /\ cleanups = 0
  /\ interrupts = 0
  /\ late = 0

\* No attempt on a given page is in progress.
KnownIdle ==
  /\ kpc = "idle"
  /\ kpage = [nav |-> FALSE]
  /\ ktype = ""
  /\ kresume = FALSE
  /\ kout = [actions |-> <<>>]

\* The page analyzer is not in use on its own.
AnalyzerIdle ==
  /\ zpc = "idle"
  /\ zpage = [has_upload |-> FALSE]
  /\ zfails = [err |-> FALSE]
  /\ ztype = ""
  /\ zanalysis = NoAnalysis

\* find_career_page has not returned a URL.
NoUrl == [tier |-> "", path |-> 0]

\* No search for a career page is in progress on its own.
FinderIdle ==
  /\ cpc = "idle"
  /\ cpath = 0
  /\ ctried = <<>>
  /\ found_url = NoUrl
  /\ cfailed = {}

\* _filter_relevant_jobs has not been called by scrape_jobs.
NotHanded == [called |-> FALSE, jobs |-> <<>>]

\* No scrape is in progress on its own.
ScraperIdle ==
  /\ spc = "idle"
  /\ spage = <<>>
  /\ skeywords = <<>>
  /\ sjobs = <<>>
  /\ sran = <<>>
  /\ shanded = NotHanded
  /\ sreturned = <<>>

\* The max_retries argument left out.
NotGiven == [given |-> FALSE, value |-> 0]

\* No retry wrapper is called on its own.
RetryIdle ==
  /\ rpc = "idle"
  /\ rwrapper = "none"
  /\ rpassed = NotGiven
  /\ rconfig = 0
  /\ rdelay = 0
  /\ rattempt = 0
  /\ routcomes = <<>>
  /\ rsleeps = <<>>
  /\ rresult = "none"

ExtraIdle == KnownIdle /\ AnalyzerIdle /\ FinderIdle /\ ScraperIdle /\ RetryIdle

UtilIdle == MapperIdle /\ FilterIdle /\ LogIdle /\ MainIdle /\ ExtraIdle

\* ---------------------------------------------------------------- pipeline
\* JobAutomationPipeline.__init__: self.test_mode = test_mode or TEST_MODE
pipeline_test_mode(flag, cfg) == flag \/ cfg

NewResult == [jobs_found |-> 0, applications_submitted |-> 0, status |-> STATUS_ERROR]

JobLists == UNION {[1..k -> [apply_link : BOOLEAN]] : k \in 0..MaxJobs}

Init ==
  /\ argsTest \in BOOLEAN
  /\ TEST_MODE \in BOOLEAN
  /\ enabled \in BOOLEAN
  /\ test_mode = pipeline_test_mode(argsTest, TEST_MODE)
  /\ numCompanies \in 1..MaxCompanies
  /\ pc = "run"
  /\ idx = 0
  /\ result = NewResult
  /\ career_url = FALSE
  /\ jobs = <<>>
  /\ jobIdx = 0
  /\ customized_resume = ""
  /\ form_result = NoFormResult
  /\ job_result = [success |-> FALSE]
  /\ status = ""
  /\ logFile = <<>>
  /\ trace = <<>>
  /\ invoked = <<>>
  /\ raisedAt = ""
  /\ jobRaised = {}
  /\ jobOutcome = <<>>
  /\ clicked = {}
  /\ ioFailed = FALSE
  /\ scraped = 0
  /\ AdaptiveIdle
  /\ UtilIdle

\* run(): the loop takes the next company and calls process_company, which
\* builds its result dictionary.
RunLoop ==
  /\ pc \in {"run", "returned"}
  /\ idx < numCompanies
  /\ idx' = idx + 1
  /\ invoked' = Append(invoked, idx + 1)
  /\ result' = NewResult
  /\ career_url' = FALSE
  /\ jobs' = <<>>
  /\ jobIdx' = 0
  /\ trace' = <<>>
  /\ raisedAt' = ""
  /\ jobRaised' = {}
  /\ jobOutcome' = <<>>
  /\ pc' = "find_career"
  /\ UNCHANGED <<argsTest, TEST_MODE, test_mode, enabled, numCompanies, customized_resume,
                 form_result, job_result, status, logFile, clicked, ioFailed, scraped>>
  /\ UNCHANGED <<avars, uvars>>

\* run(): the loop is exhausted; statistics are printed.
RunFinish ==
  /\ pc \in {"run", "returned"}
  /\ idx = numCompanies
  /\ pc' = "done"
  /\ \E ok \in BOOLEAN : stats' = get_statistics(logFile, ok)
  /\ UNCHANGED <<argsTest, TEST_MODE, test_mode, enabled, numCompanies, idx, result,
                 career_url, jobs, jobIdx, customized_resume, form_result,
                 job_result, status, logFile, trace, invoked, raisedAt, jobRaised,
                 jobOutcome, clicked, ioFailed, scraped>>
  /\ UNCHANGED <<avars, mvars, fvars, nvars, xvars, lpc, submitted, readback>>

\* Variant of CompanyExcept: the exception is not handled and ends the run.
CompanyExcept_Abort(step, tr) ==
  /\ raisedAt' = step
  /\ trace' = tr
  /\ pc' = "done"
  /\ UNCHANGED <<result, logFile, ioFailed>>

\* process_company: the except branch. The exception raised at `step`, after
\* the steps tr, is logged as one STATUS_ERROR row and the result is returned.
CompanyExcept(step, tr) ==
  /\ raisedAt' = step
  /\ result' = [result EXCEPT !.status = STATUS_ERROR]
  /\ AddApplication(Row(idx, 0, STATUS_ERROR, ""), tr)
  /\ pc' = "returned"

\* Variant of NoCareerPage: the row is logged but the return is missing.
NoCareerPage_FallThrough(tr) ==
  /\ result' = [result EXCEPT !.status = STATUS_NO_CAREER_PAGE]
  /\ AddApplication(Row(idx, 0, STATUS_NO_CAREER_PAGE, ""), tr)
  /\ pc' = "extract_emails"
  /\ UNCHANGED <<career_url, raisedAt>>

\* process_company: no career URL; log STATUS_NO_CAREER_PAGE and return.
NoCareerPage(tr) ==
  /\ result' = [result EXCEPT !.status = STATUS_NO_CAREER_PAGE]
  /\ AddApplication(Row(idx, 0, STATUS_NO_CAREER_PAGE, ""), tr)
  /\ pc' = "returned"
  /\ UNCHANGED <<career_url, raisedAt>>

\* process_company, step 1: find the career page.
FindCareerPage ==
  /\ pc = "find_career"
  /\ \/ \* a career URL is returned
        /\ career_url' = TRUE
        /\ trace' = Append(trace, Ev("find_career", 0, "found"))
        /\ pc' = "extract_emails"
        /\ UNCHANGED <<result, logFile, raisedAt, ioFailed>>
     \/ NoCareerPage(Append(trace, Ev("find_career", 0, "none")))
     \/ /\ CompanyExcept("find_career", Append(trace, Ev("find_career", 0, "raise")))
        /\ UNCHANGED career_url
  /\ UNCHANGED <<argsTest, TEST_MODE, test_mode, enabled, numCompanies, idx, jobs, jobIdx,
                 customized_resume, form_result, job_result, status, invoked,
                 jobRaised, jobOutcome, clicked, scraped>>
  /\ UNCHANGED <<avars, uvars>>

\* process_company, step 2: extract emails from the career page.
ExtractEmails ==
  /\ pc = "extract_emails"
  /\ \/ /\ trace' = Append(trace, Ev("extract_emails", 0, "ok"))
        /\ pc' = "scrape"
        /\ UNCHANGED <<result, logFile, raisedAt, ioFailed>>
     \/ CompanyExcept("extract_emails", Append(trace, Ev("extract_emails", 0, "raise")))
  /\ UNCHANGED <<argsTest, TEST_MODE, test_mode, enabled, numCompanies, idx, career_url,
                 jobs, jobIdx, customized_resume, form_result, job_result, status,
                 invoked, jobRaised, jobOutcome, clicked, scraped>>
  /\ UNCHANGED <<avars, uvars>>

\* Variant of NoJobs: the row is logged but the return is missing.
NoJobs_FallThrough(tr) ==
  /\ result' = [result EXCEPT !.jobs_found = 0, !.status = STATUS_NO_JOBS]
  /\ AddApplication(Row(idx, 0, STATUS_NO_JOBS, ""), tr)
  /\ pc' = "job_loop"

\* process_company: no job was scraped; log STATUS_NO_JOBS and return.
NoJobs(tr) ==
  /\ result' = [result EXCEPT !.jobs_found = 0, !.status = STATUS_NO_JOBS]
  /\ AddApplication(Row(idx, 0, STATUS_NO_JOBS, ""), tr)
  /\ pc' = "returned"

\* process_company, step 3: scrape the jobs.
ScrapeJobs ==
  /\ pc = "scrape"
  /\ \/ \E js \in JobLists :
          /\ scraped + Len(js) <= MaxJobs
          /\ scraped' = scraped + Len(js)
          /\ jobs' = js
          /\ IF Len(js) = 0
               THEN NoJobs(Append(trace, Ev("scrape_jobs", 0, "empty")))
               ELSE /\ result' = [result EXCEPT !.jobs_found = Len(js)]
                    /\ trace' = Append(trace, Ev("scrape_jobs", 0, "jobs"))
                    /\ pc' = "job_loop"
                    /\ UNCHANGED <<logFile, ioFailed>>
          /\ UNCHANGED raisedAt
     \/ /\ CompanyExcept("scrape_jobs", Append(trace, Ev("scrape_jobs", 0, "raise")))
        /\ UNCHANGED <<jobs, scraped>>
  /\ UNCHANGED <<argsTest, TEST_MODE, test_mode, enabled, numCompanies, idx, career_url,
                 jobIdx, customized_resume, form_result, job_result, status,
                 invoked, jobRaised, jobOutcome, clicked>>
  /\ UNCHANGED <<avars, uvars>>

\* process_company, step 4: the loop takes the next job and calls process_job,
\* which starts from result = {'success': False}.
JobLoopNext ==
  /\ pc = "job_loop"
  /\ jobIdx < Len(jobs)
  /\ \/ /\ jobIdx' = jobIdx + 1
        /\ job_result' = [success |-> FALSE]
        /\ pc' = "customize"
        /\ UNCHANGED <<result, logFile, trace, raisedAt, ioFailed>>
     \/ /\ CompanyExcept("job_loop", Append(trace, Ev("job_loop", jobIdx + 1, "raise")))
        /\ UNCHANGED <<jobIdx, job_result>>
  /\ UNCHANGED <<argsTest, TEST_MODE, test_mode, enabled, numCompanies, idx, career_url,
                 jobs, customized_resume, form_result, status, invoked, jobRaised,
                 jobOutcome, clicked, scraped>>
  /\ UNCHANGED <<avars, uvars>>

\* Variant of overall_status: decided by the jobs found.
overall_status_ByJobsFound(res) ==
  IF res.jobs_found > 0 THEN STATUS_SUCCESS ELSE STATUS_FAILED

\* process_company: the overall status of a company whose jobs were processed.
overall_status(res) ==
  IF res.applications_submitted > 0 THEN STATUS_SUCCESS ELSE STATUS_FAILED

\* process_company: after the loop the overall status is set and the result returned.
JobLoopEnd ==
  /\ pc = "job_loop"
  /\ jobIdx = Len(jobs)
  /\ result' = [result EXCEPT !.status = overall_status(result)]
  /\ pc' = "returned"
  /\ UNCHANGED <<argsTest, TEST_MODE, test_mode, enabled, numCompanies, idx, career_url,
                 jobs, jobIdx, customized_resume, form_result, job_result, status,
                 logFile, trace, invoked, raisedAt, jobRaised, jobOutcome, clicked,
                 ioFailed, scraped>>
  /\ UNCHANGED <<avars, uvars>>

\* What process_job did for one job: whether it caught an exception, whether
\* the form filler was invoked, the form result and the returned 'success'.
Outcome(raised, filled, fr, success) ==
  [raised |-> raised, filled |-> filled, form |-> fr, success |-> success]

\* process_job: the except branch. The exception is logged to the console
\* only; the result, success False, goes back to the loop of process_company,
\* which leaves applications_submitted alone.
JobExcept(tr, filled) ==
  /\ jobRaised' = jobRaised \cup {jobIdx}
  /\ jobOutcome' = Append(jobOutcome, Outcome(TRUE, filled, NoFormResult, FALSE))
  /\ trace' = tr
  /\ customized_resume' = ""
  /\ pc' = "job_loop"


\* ResumeModifier.customize_resume returns the base resume path when
\* customization is disabled ("base"), else the path of the new PDF ("custom")
\* or None.
ResumeOutcomes(on) == IF on THEN {"custom", "none"} ELSE {"base"}

\* Variant of resume_in_use: no fallback to the base resume.
resume_in_use_NoFallback(r) == IF r = "none" THEN "" ELSE r

\* process_job: `if not customized_resume` falls back to the base resume path.
resume_in_use(r) == IF r = "none" THEN "base" ELSE r

\* process_job, step 4.1: customize the resume; a missing result falls back
\* to the base resume.
CustomizeResume ==
  /\ pc = "customize"
  /\ \/ \E r \in ResumeOutcomes(enabled) :
          /\ customized_resume' = resume_in_use(r)
          /\ trace' = Append(trace, Ev("customize", jobIdx, r))
          /\ pc' = "fill_form"
          /\ UNCHANGED <<jobRaised, jobOutcome>>
     \/ JobExcept(Append(trace, Ev("customize", jobIdx, "raise")), FALSE)
  /\ UNCHANGED <<argsTest, TEST_MODE, test_mode, enabled, numCompanies, idx, result,
                 career_url, jobs, jobIdx, form_result, job_result, status, logFile,
                 invoked, raisedAt, clicked, ioFailed, scraped>>
  /\ UNCHANGED <<avars, uvars>>

\* process_job, step 4.2: fill the application form when the job has an apply
\* link, and derive the status.
FillForm ==
  /\ pc = "fill_form"
  /\ IF jobs[jobIdx].apply_link
       THEN LET tr == Append(trace, Ev("fill_form", jobIdx, customized_resume)) IN
            \/ \E page \in Pages :
                 LET fr == fill_application_form(page, TEST_MODE) IN
                 /\ form_result' = fr
                 /\ status' = job_status(fr)
                 /\ job_result' = [success |-> fr.success]
                 /\ trace' = IF fr.clicked
                               THEN Append(tr, Ev("submit_click", jobIdx, ""))
                               ELSE tr
                 /\ clicked' = IF fr.clicked THEN clicked \cup {idx} ELSE clicked
                 /\ pc' = "log_job"
                 /\ UNCHANGED <<jobRaised, jobOutcome, customized_resume>>
            \/ /\ JobExcept(tr, TRUE)
               /\ UNCHANGED <<form_result, status, job_result, clicked>>
       ELSE /\ status' = STATUS_FAILED
            /\ pc' = "log_job"
            /\ UNCHANGED <<form_result, job_result, trace, clicked, jobRaised,
                           jobOutcome, customized_resume>>
  /\ UNCHANGED <<argsTest, TEST_MODE, test_mode, enabled, numCompanies, idx, result,
                 career_url, jobs, jobIdx, logFile, invoked, raisedAt, ioFailed, scraped>>
  /\ UNCHANGED <<avars, uvars>>

\* Variant of count_application: every processed job is counted.
count_application_Always(res, jr) ==
  [res EXCEPT !.applications_submitted = @ + 1]

\* process_company: if job_result['success']: applications_submitted += 1
count_application(res, jr) ==
  IF jr.success THEN [res EXCEPT !.applications_submitted = @ + 1] ELSE res

\* process_job: log the job to the spreadsheet and return; process_company
\* counts the job when its result reports success.
LogJob ==
  /\ pc = "log_job"
  /\ AddApplication(Row(idx, jobIdx, status, customized_resume), trace)
  /\ jobOutcome' = Append(jobOutcome,
       Outcome(FALSE, jobs[jobIdx].apply_link, form_result, job_result.success))
  /\ result' = count_application(result, job_result)
  /\ customized_resume' = ""
  /\ form_result' = NoFormResult
  /\ status' = ""
  /\ job_result' = [success |-> FALSE]
  /\ pc' = "job_loop"
  /\ UNCHANGED <<argsTest, TEST_MODE, test_mode, enabled, numCompanies, idx, career_url,
                 jobs, jobIdx, invoked, raisedAt, jobRaised, clicked, scraped>>
  /\ UNCHANGED <<avars, uvars>>

Next ==
  \/ RunLoop
  \/ RunFinish
  \/ FindCareerPage
  \/ ExtractEmails
  \/ ScrapeJobs
  \/ JobLoopNext
  \/ JobLoopEnd
  \/ CustomizeResume
  \/ FillForm
  \/ LogJob

Spec == Init /\ [][Next]_vars

\* ------------------------------------------- adaptive form filler, actions
\* str.lower on one character
lower_char(c) ==
  CASE c = "A" -> "a"
    [] c = "B" -> "b"
    [] c = "C" -> "c"
    [] c = "D" -> "d"
    [] c = "E" -> "e"
    [] c = "F" -> "f"
    [] c = "G" -> "g"
    [] c = "H" -> "h"
    [] c = "I" -> "i"
    [] c = "J" -> "j"
    [] c = "K" -> "k"
    [] c = "L" -> "l"
    [] c = "M" -> "m"
    [] c = "N" -> "n"
    [] c = "O" -> "o"
    [] c = "P" -> "p"
    [] c = "Q" -> "q"
    [] c = "R" -> "r"
    [] c = "S" -> "s"
    [] c = "T" -> "t"
    [] c = "U" -> "u"
    [] c = "V" -> "v"
    [] c = "W" -> "w"
    [] c = "X" -> "x"
    [] c = "Y" -> "y"
    [] c = "Z" -> "z"
    [] OTHER -> c

\* str.lower
lower(s) == [i \in 1..Len(s) |-> lower_char(s[i])]

\* Names of application systems, as detect_application_type looks for them.
Brands ==
  [greenhouse |-> <<"g", "r", "e", "e", "n", "h", "o", "u", "s", "e">>,
   lever |-> <<"l", "e", "v", "e", "r">>,
   workday |-> <<"w", "o", "r", "k", "d", "a", "y">>,
   taleo |-> <<"t", "a", "l", "e", "o">>,
   smartrecruiters |-> <<"s", "m", "a", "r", "t", "r", "e", "c", "r", "u", "i", "t", "e", "r", "s">>,
   ashbyhq |-> <<"a", "s", "h", "b", "y", "h", "q">>,
   ashby |-> <<"a", "s", "h", "b", "y">>]

\* URLs of application pages.
Urls ==
  {<<"a", ".", "c", "o", "/", "j", "o", "b">>,
   <<"B", "o", "a", "r", "d", "s", ".", "G", "r", "e", "e", "n", "h", "o", "u", "s", "e", ".", "i", "o">>,
   <<"j", "o", "b", "s", ".", "l", "e", "v", "e", "r", ".", "c", "o", "/", "g", "r", "e", "e", "n", "h", "o", "u", "s", "e">>,
   <<"x", ".", "m", "y", "w", "o", "r", "k", "d", "a", "y", "j", "o", "b", "s", ".", "c", "o", "m">>,
   <<"x", ".", "t", "a", "l", "e", "o", ".", "n", "e", "t">>,
   <<"s", "m", "a", "r", "t", "r", "e", "c", "r", "u", "i", "t", "e", "r", "s", ".", "c", "o", "m">>,
   <<"j", "o", "b", "s", ".", "a", "s", "h", "b", "y", "h", "q", ".", "c", "o", "m">>,
   <<"a", "s", "h", "b", "y", ".", "c", "o", "m">>}

\* HTML texts of application pages.
Htmls ==
  {<<>>,
   <<"<", "p", ">", "A", "p", "p", "l", "y", "<", "/", "p", ">">>,
   <<"P", "o", "w", "e", "r", "e", "d", " ", "b", "y", " ", "G", "r", "e", "e", "n", "h", "o", "u", "s", "e">>,
   <<"h", "i", "r", "e", ".", "l", "e", "v", "e", "r", ".", "c", "o">>,
   <<"W", "o", "r", "k", "d", "a", "y">>,
   <<"t", "a", "l", "e", "o">>,
   <<"a", "s", "h", "b", "y">>}

\* BrowserManager.get_page_url: the URL of the page, "" when reading it fails.
get_page_url(url, fails) == IF fails THEN <<>> ELSE url

\* BrowserManager.get_page_content: the HTML of the page, "" when reading it
\* fails.
get_page_content(html, fails) == IF fails THEN <<>> ELSE html

\* AIFormAnalyzer.detect_application_type: the lower-cased URL is checked
\* first, for six names in a fixed order, then the lower-cased HTML for two
\* names only; an exception gives 'unknown'.
detect_application_type(url, html, err) ==
  IF err THEN "unknown"
  ELSE IF str_contains(lower(url), Brands.greenhouse) THEN "greenhouse"
  ELSE IF str_contains(lower(url), Brands.lever) THEN "lever"
  ELSE IF str_contains(lower(url), Brands.workday) THEN "workday"
  ELSE IF str_contains(lower(url), Brands.taleo) THEN "taleo"
  ELSE IF str_contains(lower(url), Brands.smartrecruiters) THEN "smartrecruiters"
  ELSE IF str_contains(lower(url), Brands.ashbyhq) THEN "ashby"
  ELSE IF str_contains(lower(html), Brands.greenhouse) THEN "greenhouse"
  ELSE IF str_contains(lower(html), Brands.lever) THEN "lever"
  ELSE "custom"

KnownSystems == {"greenhouse", "lever", "workday"}

\* AIFormAnalyzer.analyze_page: the analysis of the page, {} on an error.
analyze_page(has_upload, err) ==
  IF err THEN NoAnalysis ELSE [empty |-> FALSE, has_file_upload |-> has_upload]

\* Field mappings: per mapped field, whether its value is non-empty.
FieldMappings == UNION {[1..k -> BOOLEAN] : k \in 0..MaxFields}

\* AIFormAnalyzer.get_field_mapping: the mapping of the page, {} on an error.
get_field_mapping(fields, err) == IF err THEN <<>> ELSE fields

\* Variant of on_submit_found: the candidate is clicked.
on_submit_found_Click(p) == <<"click_submit", "human_delay">>

\* _find_and_click_submit: what is done with a visible and enabled candidate
\* found by pattern p: a pause for manual review, nothing else.
on_submit_found(p) == <<"human_delay">>

\* What wait_for_selector and the element checks give for one submit pattern.
CandidateOutcomes == {"absent", "raise", "hidden", "disabled", "ready"}

FailedResult(reason) ==
  [status |-> "failed", reason |-> reason, has_fields_filled |-> FALSE,
   fields_filled |-> 0, submitted |-> FALSE]

InitAdaptive ==
  /\ argsTest = FALSE
  /\ TEST_MODE = FALSE
  /\ enabled = TRUE
  /\ test_mode = pipeline_test_mode(argsTest, TEST_MODE)
  /\ numCompanies = 1
  /\ pc = "run"
  /\ idx = 0
  /\ result = NewResult
  /\ career_url = FALSE
  /\ jobs = <<>>
  /\ jobIdx = 0
  /\ customized_resume = ""
  /\ form_result = NoFormResult
  /\ job_result = [success |-> FALSE]
  /\ status = ""
  /\ logFile = <<>>
  /\ trace = <<>>
  /\ invoked = <<>>
  /\ raisedAt = ""
  /\ jobRaised = {}
  /\ jobOutcome = <<>>
  /\ clicked = {}
  /\ ioFailed = FALSE
  /\ scraped = 0
  /\ apc = "navigate"
  /\ resume_path \in BOOLEAN
  /\ app_type = ""
  /\ page_analysis = NoAnalysis
  /\ field_mapping = <<>>
  /\ filled_count = 0
  /\ patternIdx = 0
  /\ submit_found = FALSE
  /\ aresult = NoAResult
  /\ atrace = <<>>
  /\ UtilIdle

\* Variant of Navigate: a failed navigation is recorded but the filling goes on.
Navigate_IgnoreFailure ==
  /\ apc = "navigate"
  /\ \E ok \in BOOLEAN :
       /\ atrace' = Append(atrace, "navigate")
       /\ apc' = "detect"
       /\ IF ok
            THEN UNCHANGED aresult
            ELSE aresult' = FailedResult("navigation_failed")
  /\ UNCHANGED <<resume_path, app_type, page_analysis, field_mapping,
                 filled_count, patternIdx, submit_found>>
  /\ UNCHANGED <<pvars, uvars>>

\* fill_application: navigate to the form; a failed navigation is the result
\* 'failed' / 'navigation_failed'.
Navigate ==
  /\ apc = "navigate"
  /\ \E ok \in BOOLEAN :
       /\ atrace' = Append(atrace, "navigate")
       /\ IF ok
            THEN apc' = "detect" /\ UNCHANGED aresult
            ELSE apc' = "done" /\ aresult' = FailedResult("navigation_failed")
  /\ UNCHANGED <<resume_path, app_type, page_analysis, field_mapping,
                 filled_count, patternIdx, submit_found>>
  /\ UNCHANGED <<pvars, uvars>>

\* fill_application: detect the application system.
DetectApplicationType ==
  /\ apc = "detect"
  /\ \E url \in Urls, html \in Htmls, fails \in BOOLEAN, err \in BOOLEAN :
       app_type' = detect_application_type(get_page_url(url, fails),
                                           get_page_content(html, fails), err)
  /\ atrace' = Append(atrace, "detect_application_type")
  /\ apc' = "analyze"
  /\ UNCHANGED <<resume_path, page_analysis, field_mapping, filled_count,
                 patternIdx, submit_found, aresult>>
  /\ UNCHANGED <<pvars, uvars>>

\* fill_application: analyze the page, then choose the strategy by the
\* detected system.
AnalyzePage ==
  /\ apc = "analyze"
  /\ \E up \in BOOLEAN, err \in BOOLEAN : page_analysis' = analyze_page(up, err)
  /\ atrace' = Append(atrace, "analyze_page")
  /\ apc' = IF app_type \in KnownSystems THEN "known" ELSE "mapping"
  /\ UNCHANGED <<resume_path, app_type, field_mapping, filled_count,
                 patternIdx, submit_found, aresult>>
  /\ UNCHANGED <<pvars, uvars>>

\* _fill_known_system and _fill_greenhouse / _fill_lever / _fill_workday: the
\* page is analyzed again and _fill_adaptive is called with the new analysis.
FillKnownSystem ==
  /\ apc = "known"
  /\ \E up \in BOOLEAN, err \in BOOLEAN : page_analysis' = analyze_page(up, err)
  /\ atrace' = Append(atrace, "analyze_page")
  /\ apc' = "mapping"
  /\ UNCHANGED <<resume_path, app_type, field_mapping, filled_count,
                 patternIdx, submit_found, aresult>>
  /\ UNCHANGED <<pvars, uvars>>

\* _fill_adaptive: filled_count = 0, then the field mapping is computed.
GetFieldMapping ==
  /\ apc = "mapping"
  /\ \E fields \in FieldMappings, err \in BOOLEAN :
       field_mapping' = get_field_mapping(fields, err)
  /\ filled_count' = 0
  /\ atrace' = Append(atrace, "get_field_mapping")
  /\ apc' = "fields"
  /\ UNCHANGED <<resume_path, app_type, page_analysis, patternIdx,
                 submit_found, aresult>>
  /\ UNCHANGED <<pvars, uvars>>

\* _fill_adaptive: the next mapped field. A field with an empty value is
\* skipped; otherwise the four selectors are tried in order and the field is
\* typed into through the first one that matches (sel = 0: none does).
FillField ==
  /\ apc = "fields"
  /\ field_mapping # <<>>
  /\ IF Head(field_mapping)
       THEN \E sel \in 0..NumFieldSelectors :
              IF sel > 0
                THEN /\ filled_count' = filled_count + 1
                     /\ atrace' = Append(atrace, "human_type")
                ELSE UNCHANGED <<filled_count, atrace>>
       ELSE UNCHANGED <<filled_count, atrace>>
  /\ field_mapping' = Tail(field_mapping)
  /\ UNCHANGED <<apc, resume_path, app_type, page_analysis, patternIdx,
                 submit_found, aresult>>
  /\ UNCHANGED <<pvars, uvars>>

\* Variant of upload_wanted: the resume path is not looked at.
upload_wanted_IgnorePath(path, analysis) == analysis.has_file_upload

\* _fill_adaptive: if resume_path and page_analysis.get('has_file_upload')
upload_wanted(path, analysis) == path /\ analysis.has_file_upload

\* _fill_adaptive: after the fields, the resume is uploaded when a path was
\* given and the analysis reports a file input; then the submit search begins.
UploadResume ==
  /\ apc = "fields"
  /\ field_mapping = <<>>
  /\ IF upload_wanted(resume_path, page_analysis)
       THEN \E ok \in BOOLEAN :
              IF ok
                THEN /\ filled_count' = filled_count + 1
                     /\ atrace' = Append(atrace, "set_input_files")
                ELSE /\ UNCHANGED filled_count
                     /\ atrace' = Append(atrace, "upload_failed")
       ELSE UNCHANGED <<filled_count, atrace>>
  /\ patternIdx' = 1
  /\ apc' = "submit"
  /\ UNCHANGED <<resume_path, app_type, page_analysis, field_mapping,
                 submit_found, aresult>>
  /\ UNCHANGED <<pvars, uvars>>

\* _find_and_click_submit: one pattern of the list. A visible and enabled
\* element ends the search with True; anything else goes on to the next
\* pattern, and the end of the list gives False.
FindAndClickSubmit ==
  /\ apc = "submit"
  /\ \E o \in CandidateOutcomes :
       IF o = "ready"
         THEN /\ atrace' = atrace \o on_submit_found(patternIdx)
              /\ submit_found' = TRUE
              /\ apc' = "result"
              /\ UNCHANGED patternIdx
         ELSE /\ UNCHANGED <<atrace, submit_found>>
              /\ IF patternIdx < NumSubmitPatterns
                   THEN patternIdx' = patternIdx + 1 /\ UNCHANGED apc
                   ELSE apc' = "result" /\ UNCHANGED patternIdx
  /\ UNCHANGED <<resume_path, app_type, page_analysis, field_mapping,
                 filled_count, aresult>>
  /\ UNCHANGED <<pvars, uvars>>

\* _fill_adaptive: the result dictionary.
FillAdaptiveReturn ==
  /\ apc = "result"
  /\ aresult' = [status |-> IF submit_found THEN "success" ELSE "manual_required",
                 reason |-> "", has_fields_filled |-> TRUE,
                 fields_filled |-> filled_count, submitted |-> submit_found]
  /\ apc' = "done"
  /\ UNCHANGED <<resume_path, app_type, page_analysis, field_mapping,
                 filled_count, patternIdx, submit_found, atrace>>
  /\ UNCHANGED <<pvars, uvars>>

\* _fill_adaptive: the except branch; the result has no 'fields_filled'.
FillAdaptiveExcept ==
  /\ apc \in {"mapping", "fields", "submit", "result"}
  /\ aresult' = FailedResult("exception")
  /\ apc' = "done"
  /\ UNCHANGED <<resume_path, app_type, page_analysis, field_mapping,
                 filled_count, patternIdx, submit_found, atrace>>
  /\ UNCHANGED <<pvars, uvars>>

\* fill_application: the except branch.
FillApplicationExcept ==
  /\ apc \in {"navigate", "detect", "analyze", "known"}
  /\ aresult' = FailedResult("exception")
  /\ apc' = "done"
  /\ UNCHANGED <<resume_path, app_type, page_analysis, field_mapping,
                 filled_count, patternIdx, submit_found, atrace>>
  /\ UNCHANGED <<pvars, uvars>>

NextAdaptive ==
  \/ Navigate
  \/ DetectApplicationType
  \/ AnalyzePage
  \/ FillKnownSystem
  \/ GetFieldMapping
  \/ FillField
  \/ UploadResume
  \/ FindAndClickSubmit
  \/ FillAdaptiveReturn
  \/ FillAdaptiveExcept
  \/ FillApplicationExcept

SpecAdaptive == InitAdaptive /\ [][NextAdaptive]_vars

\* ------------------------------------------------------------ field mapper
\* Strings are sequences of characters.
Whitespace == {" ", "\t"}

\* `k in s` for strings
contains(s, k) ==
  \/ k = <<>>
  \/ \E i \in 1..(Len(s) - Len(k) + 1) : SubSeq(s, i, i + Len(k) - 1) = k

\* Length of the leading run of non-whitespace characters of s.
token_end(s) ==
  IF \E i \in 1..Len(s) : s[i] \in Whitespace
    THEN (CHOOSE i \in 1..Len(s) :
            s[i] \in Whitespace /\ \A j \in 1..(i - 1) : s[j] \notin Whitespace) - 1
    ELSE Len(s)

\* str.split(): the whitespace-separated tokens of s.
RECURSIVE split(_)
split(s) ==
  IF s = <<>> THEN <<>>
  ELSE IF Head(s) \in Whitespace THEN split(Tail(s))
  ELSE <<SubSeq(s, 1, token_end(s))>> \o split(SubSeq(s, token_end(s) + 1, Len(s)))

\* get_field_mapping: the if / elif chain, in its order.
MappingRules ==
  <<
    [category |-> "email",
     keywords |-> {<<"e", "m", "a", "i", "l">>,
                  <<"e", "-", "m", "a", "i", "l">>}],
    [category |-> "phone",
     keywords |-> {<<"p", "h", "o", "n", "e">>,
                  <<"m", "o", "b", "i", "l", "e">>,
                  <<"t", "e", "l", "e", "p", "h", "o", "n", "e">>}],
    [category |-> "first",
     keywords |-> {<<"f", "i", "r", "s", "t">>,
                  <<"f", "n", "a", "m", "e">>,
                  <<"f", "i", "r", "s", "t", "n", "a", "m", "e">>}],
    [category |-> "last",
     keywords |-> {<<"l", "a", "s", "t">>,
                  <<"l", "n", "a", "m", "e">>,
                  <<"l", "a", "s", "t", "n", "a", "m", "e">>}],
    [category |-> "name",
     keywords |-> {<<"n", "a", "m", "e">>,
                  <<"f", "u", "l", "l">>}],
    [category |-> "linkedin",
     keywords |-> {<<"l", "i", "n", "k", "e", "d", "i", "n">>,
                  <<"p", "r", "o", "f", "i", "l", "e">>}],
    [category |-> "portfolio",
     keywords |-> {<<"p", "o", "r", "t", "f", "o", "l", "i", "o">>,
                  <<"w", "e", "b", "s", "i", "t", "e">>,
                  <<"g", "i", "t", "h", "u", "b">>}],
    [category |-> "address",
     keywords |-> {<<"a", "d", "d", "r", "e", "s", "s">>,
                  <<"l", "o", "c", "a", "t", "i", "o", "n">>,
                  <<"c", "i", "t", "y">>}],
    [category |-> "years_experience",
     keywords |-> {<<"e", "x", "p", "e", "r", "i", "e", "n", "c", "e">>,
                  <<"y", "e", "a", "r", "s">>}]
  >>

\* get_field_mapping: field_id = id or name
field_id(inp) == IF inp.id # <<>> THEN inp.id ELSE inp.name

\* get_field_mapping: field_lower, built from the field id, the placeholder
\* and the aria label.
field_lower(inp) ==
  lower(field_id(inp) \o <<" ">> \o inp.placeholder \o <<" ">> \o inp.aria_label)

\* The category of the first branch of the chain one of whose keywords occurs
\* in the text; "none" when no branch matches.
classify(text) ==
  LET hits == {i \in DOMAIN MappingRules :
                 \E k \in MappingRules[i].keywords : contains(text, k)}
  IN IF hits = {} THEN "none"
     ELSE MappingRules[CHOOSE i \in hits : \A j \in hits : i <= j].category

\* user_data.get('name', '').split()[0] raises IndexError for a name without token.
first_name_raises(name) == split(name) = <<>>

first_name(name) == split(name)[1]

\* Variant of last_name: the last token also for a single-token name.
last_name_AnyLength(name) ==
  LET name_parts == split(name)
  IN IF Len(name_parts) > 0 THEN name_parts[Len(name_parts)] ELSE <<>>

\* name_parts[-1] if len(name_parts) > 1 else ''
last_name(name) ==
  LET name_parts == split(name)
  IN IF Len(name_parts) > 1 THEN name_parts[Len(name_parts)] ELSE <<>>

\* The user data of a run; only the name varies.
UserData(name) ==
  [name |-> name, email |-> <<"j", "d", "@", "x", ".", "i", "o">>, phone |-> <<"5", "5", "5">>,
   linkedin |-> <<"i", "n", "/", "j", "d">>, portfolio |-> <<"j", "d", ".", "d", "e", "v">>,
   address |-> <<"P", "u", "n", "e">>, years_experience |-> <<"5">>]

\* The value a category maps to (the first-name branch when it does not raise).
user_value(cat, user_data) ==
  CASE cat = "first" -> first_name(user_data.name)
    [] cat = "last" -> last_name(user_data.name)
    [] OTHER -> user_data[cat]

\* field_mapping[key] = value on a dictionary kept in insertion order.
dict_set(d, key, value) ==
  IF \E i \in DOMAIN d : d[i][1] = key
    THEN [i \in DOMAIN d |-> IF d[i][1] = key THEN <<key, value>> ELSE d[i]]
    ELSE Append(d, <<key, value>>)

\* Inputs of a page inventory.
Fields ==
  {
    [id |-> <<"e", "m", "a", "i", "l">>, name |-> <<>>,
     placeholder |-> <<>>, aria_label |-> <<>>],
    [id |-> <<"c", "o", "n", "t", "a", "c", "t">>, name |-> <<>>,
     placeholder |-> <<"E", "m", "a", "i", "l", " ", "o", "r", " ", "p", "h", "o", "n", "e">>, aria_label |-> <<>>],
    [id |-> <<"f", "i", "e", "l", "d", "_", "1">>, name |-> <<"e", "m", "a", "i", "l">>,
     placeholder |-> <<>>, aria_label |-> <<>>],
    [id |-> <<>>, name |-> <<"p", "h", "o", "n", "e">>,
     placeholder |-> <<>>, aria_label |-> <<>>],
    [id |-> <<"f", "i", "r", "s", "t", "N", "a", "m", "e">>, name |-> <<>>,
     placeholder |-> <<>>, aria_label |-> <<>>],
    [id |-> <<>>, name |-> <<"l", "n", "a", "m", "e">>,
     placeholder |-> <<>>, aria_label |-> <<>>],
    [id |-> <<"a", "p", "p", "l", "i", "c", "a", "n", "t">>, name |-> <<>>,
     placeholder |-> <<>>, aria_label |-> <<"F", "u", "l", "l", " ", "n", "a", "m", "e">>],
    [id |-> <<>>, name |-> <<>>,
     placeholder |-> <<"E", "m", "a", "i", "l">>, aria_label |-> <<>>],
    [id |-> <<"q", "1">>, name |-> <<>>,
     placeholder |-> <<>>, aria_label |-> <<>>],
    [id |-> <<"c", "i", "t", "y">>, name |-> <<>>,
     placeholder |-> <<"L", "i", "n", "k", "e", "d", "I", "n", " ", "p", "r", "o", "f", "i", "l", "e">>, aria_label |-> <<>>]
  }

Inventories == UNION {[1..k -> Fields] : k \in 0..MaxInputs}

Names == {<<"J", "a", "n", "e", " ", "Q", " ", "P", "u", "b", "l", "i", "c">>,
          <<"M", "a", "d", "o", "n", "n", "a">>,
          <<>>,
          <<" ", " ">>,
          <<" ", "A", "n", "n", " ", " ", "L", "e", "e", " ">>}

\* The pipeline is not running.
PipelineIdle ==
  /\ argsTest = FALSE
  /\ TEST_MODE = FALSE
  /\ enabled = TRUE
  /\ test_mode = pipeline_test_mode(argsTest, TEST_MODE)
  /\ numCompanies = 1
  /\ pc = "run"
  /\ idx = 0
  /\ result = NewResult
  /\ career_url = FALSE
  /\ jobs = <<>>
  /\ jobIdx = 0
  /\ customized_resume = ""
  /\ form_result = NoFormResult
  /\ job_result = [success |-> FALSE]
  /\ status = ""
  /\ logFile = <<>>
  /\ trace = <<>>
  /\ invoked = <<>>
  /\ raisedAt = ""
  /\ jobRaised = {}
  /\ jobOutcome = <<>>
  /\ clicked = {}
  /\ ioFailed = FALSE
  /\ scraped = 0

InitMapping ==
  /\ PipelineIdle
  /\ AdaptiveIdle
  /\ ExtraIdle
  /\ FilterIdle
  /\ LogIdle
  /\ MainIdle
  /\ mpc = "loop"
  /\ user_name \in Names
  /\ inputs \in Inventories
  /\ field_map = <<>>
  /\ mhist = <<>>

\* get_field_mapping: one pass of the loop over elements['inputs']. An input
\* without id and name is skipped, an input matching no branch is left out, and
\* an exception ends the call with the empty mapping.
\* Variant of mapping_after_exception: the fields mapped so far are kept.
mapping_after_exception_Partial(mapped) == mapped

\* get_field_mapping: the except branch returns {}.
mapping_after_exception(mapped) == <<>>

MapInput ==
  /\ mpc = "loop"
  /\ inputs # <<>>
  /\ LET inp == Head(inputs)
         cat == IF field_id(inp) = <<>> THEN "skipped" ELSE classify(field_lower(inp))
         raises == cat = "first" /\ first_name_raises(user_name)
         value == IF cat \in {"skipped", "none"} \/ raises THEN <<>>
                  ELSE user_value(cat, UserData(user_name))
     IN /\ mhist' = Append(mhist, [input |-> inp, category |-> cat,
                                   value |-> value, raised |-> raises])
        /\ IF raises
             THEN /\ field_map' = mapping_after_exception(field_map)
                  /\ mpc' = "done"
             ELSE /\ field_map' = IF cat \in {"skipped", "none"} THEN field_map
                                  ELSE dict_set(field_map, field_id(inp), value)
                  /\ UNCHANGED mpc
  /\ inputs' = Tail(inputs)
  /\ UNCHANGED user_name
  /\ UNCHANGED not_mvars

\* get_field_mapping: return field_mapping
MapReturn ==
  /\ mpc = "loop"
  /\ inputs = <<>>
  /\ mpc' = "done"
  /\ UNCHANGED <<user_name, inputs, field_map, mhist>>
  /\ UNCHANGED not_mvars

NextMapping ==
  \/ MapInput
  \/ MapReturn

SpecMapping == InitMapping /\ [][NextMapping]_vars

\* -------------------------------------------------------- relevance filter
\* Variant of match_count: the keyword is compared without lowering the text.
match_count_CaseSensitive(job, kws) ==
  Cardinality({k \in DOMAIN kws :
     contains(job.title \o <<" ">> \o job.description, lower(kws[k]))})

\* _filter_relevant_jobs: the number of keywords of the list that occur,
\* lowered, in the lowered "title description" text of the job.
match_count(job, kws) ==
  Cardinality({k \in DOMAIN kws :
     contains(lower(job.title \o <<" ">> \o job.description), lower(kws[k]))})

\* One step of a stable descending sort: x goes behind every element of the
\* sorted list t whose score is not smaller.
insert_by_score(t, x) ==
  LET n == Cardinality({i \in DOMAIN t : t[i].relevance_score >= x.relevance_score})
  IN SubSeq(t, 1, n) \o <<x>> \o SubSeq(t, n + 1, Len(t))

\* list.sort(key = relevance_score, reverse = True), which is stable.
RECURSIVE sort_by_score(_)
sort_by_score(js) ==
  IF js = <<>> THEN <<>>
  ELSE insert_by_score(sort_by_score(SubSeq(js, 1, Len(js) - 1)), js[Len(js)])

\* _filter_relevant_jobs
filter_relevant_jobs(js, kws) ==
  IF kws = <<>> THEN js
  ELSE LET scored == [i \in DOMAIN js |->
                        [id |-> js[i].id, title |-> js[i].title,
                         description |-> js[i].description,
                         relevance_score |-> match_count(js[i], kws)]]
       IN sort_by_score(SelectSeq(scored, LAMBDA j : j.relevance_score > 0))

KeywordLists ==
  {<<>>,
   <<<<"b", "a", "c", "k", "e", "n", "d">>>>,
   <<<<"P", "y", "t", "h", "o", "n">>, <<"a", "p", "i">>>>,
   <<<<"p", "y", "t", "h", "o", "n">>, <<"B", "a", "c", "k", "e", "n", "d">>, <<"a", "p", "i">>>>}

PostingTexts ==
  {<<<<"B", "a", "c", "k", "e", "n", "d", " ", "E", "n", "g", "i", "n", "e", "e", "r">>,
     <<"p", "y", "t", "h", "o", "n", " ", "A", "P", "I", " ", "w", "o", "r", "k">>>>,
   <<<<"C", "h", "e", "f">>,
     <<"c", "o", "o", "k", "i", "n", "g">>>>,
   <<<<"D", "a", "t", "a", " ", "A", "n", "a", "l", "y", "s", "t">>,
     <<"P", "Y", "T", "H", "O", "N">>>>,
   <<<<"S", "a", "l", "e", "s">>,
     <<>>>>}

\* Scraped postings; id is the position in the scraped list.
PostingLists ==
  UNION {{[i \in 1..k |-> [id |-> i, title |-> f[i][1], description |-> f[i][2],
                           relevance_score |-> 0]] :
            f \in [1..k -> PostingTexts]} : k \in 0..MaxPostings}

InitFilter ==
  /\ PipelineIdle
  /\ AdaptiveIdle
  /\ ExtraIdle
  /\ MapperIdle
  /\ LogIdle
  /\ MainIdle
  /\ fpc = "call"
  /\ keywords \in KeywordLists
  /\ postings \in PostingLists
  /\ relevant_jobs = <<>>

\* scrape_jobs: the scraped postings go through _filter_relevant_jobs.
FilterRelevantJobs ==
  /\ fpc = "call"
  /\ relevant_jobs' = filter_relevant_jobs(postings, keywords)
  /\ fpc' = "done"
  /\ UNCHANGED <<keywords, postings>>
  /\ UNCHANGED not_fvars

\* scrape_jobs: the filtered list is returned.
FilterReturn ==
  /\ fpc = "done"
  /\ fpc' = "returned"
  /\ UNCHANGED <<keywords, postings, relevant_jobs>>
  /\ UNCHANGED not_fvars

NextFilter ==
  \/ FilterRelevantJobs
  \/ FilterReturn

SpecFilter == InitFilter /\ [][NextFilter]_vars

\* ---------------------------------------------------------- application log
\* add_application: the row built from application_data; the description,
\* given by its length, is cut to its first DescLimit characters.
row_data(app) ==
  [company |-> app.company, job |-> app.job, status |-> app.status,
   resume |-> app.resume,
   description |-> IF app.description > DescLimit THEN DescLimit
                   ELSE app.description]

\* get_all_applications: the rows of the file, an empty frame when the read fails.
get_all_applications(file, ok) == IF ok THEN file ELSE <<>>

Applications ==
  [company : {1}, job : {0, 1}, status : {STATUS_SUCCESS, STATUS_ERROR},
   resume : {"base"}, description : {0, DescLimit, DescLimit + 1}]

InitLog ==
  /\ PipelineIdle
  /\ AdaptiveIdle
  /\ ExtraIdle
  /\ MapperIdle
  /\ FilterIdle
  /\ MainIdle
  /\ lpc = "writing"
  /\ submitted = <<>>
  /\ readback = <<>>
  /\ stats = NoStats

\* One add_application call on the log file.
LogAddApplication ==
  /\ lpc = "writing"
  /\ Len(submitted) < MaxCalls
  /\ \E app \in Applications, io \in IOOutcomes :
       /\ logFile' = add_application(logFile, row_data(app), io)
       /\ ioFailed' = (ioFailed \/ io # "ok")
       /\ submitted' = Append(submitted, app)
  /\ UNCHANGED <<lpc, readback, stats>>
  /\ UNCHANGED not_lvars

\* The log is read back with get_all_applications.
LogReadBack ==
  /\ lpc = "writing"
  /\ \E ok \in BOOLEAN :
       /\ readback' = get_all_applications(logFile, ok)
       /\ lpc' = IF ok THEN "read" ELSE "read_failed"
  /\ UNCHANGED <<submitted, logFile, ioFailed, stats>>
  /\ UNCHANGED not_lvars

NextLog ==
  \/ LogAddApplication
  \/ LogReadBack

SpecLog == InitLog /\ [][NextLog]_vars

\* --------------------------------------------------------------- entry point
Providers == {"openai", "gemini", "other"}

\* What main() finds at the program start.
Environments ==
  [create_sample : BOOLEAN, python_ok : BOOLEAN, csv_exists : BOOLEAN,
   resume_exists : BOOLEAN, provider : Providers, openai_key : BOOLEAN,
   gemini_key : BOOLEAN]

\* Variant of validate_environment: a missing API key is not an error.
validate_environment_KeyOptional(e) ==
  (IF e.python_ok THEN {} ELSE {"python"})
    \cup (IF e.csv_exists THEN {} ELSE {"companies_csv"})
    \cup (IF e.resume_exists THEN {} ELSE {"base_resume"})
    \cup (IF e.provider \in {"openai", "gemini"} THEN {} ELSE {"provider"})

\* validate_environment: the errors found; the environment is valid iff there
\* is none.
validate_environment(e) ==
  (IF e.python_ok THEN {} ELSE {"python"})
    \cup (IF e.csv_exists THEN {} ELSE {"companies_csv"})
    \cup (IF e.resume_exists THEN {} ELSE {"base_resume"})
    \cup (IF e.provider = "openai"
            THEN (IF e.openai_key THEN {} ELSE {"openai_key"})
          ELSE IF e.provider = "gemini"
            THEN (IF e.gemini_key THEN {} ELSE {"gemini_key"})
          ELSE {"provider"})

InitMain ==
  /\ PipelineIdle
  /\ AdaptiveIdle
  /\ ExtraIdle
  /\ MapperIdle
  /\ FilterIdle
  /\ LogIdle
  /\ npc = "start"
  /\ env \in Environments
  /\ errors = {}
  /\ sample_written = FALSE
  /\ dirs_ensured = FALSE
  /\ browser_started = FALSE
  /\ companies = 0
  /\ processed = 0
  /\ cleanups = 0
  /\ interrupts = 0
  /\ late = 0

\* main: --create-sample writes the sample file and returns; otherwise the
\* directories are ensured.
MainStart ==
  /\ npc = "start"
  /\ IF env.create_sample
       THEN sample_written' = TRUE /\ npc' = "exit" /\ UNCHANGED dirs_ensured
       ELSE dirs_ensured' = TRUE /\ npc' = "validate" /\ UNCHANGED sample_written
  /\ UNCHANGED <<env, errors, browser_started, companies, processed, cleanups,
                 logFile, ioFailed, ivars>>
  /\ UNCHANGED not_nvars

\* main: validate the environment; on errors write the sample company file if
\* the company file is missing, and return.
MainValidate ==
  /\ npc = "validate"
  /\ errors' = validate_environment(env)
  /\ IF errors' # {}
       THEN /\ sample_written' = ~env.csv_exists
            /\ npc' = "exit"
       ELSE /\ UNCHANGED sample_written
            /\ npc' = "read"
  /\ UNCHANGED <<env, dirs_ensured, browser_started, companies, processed,
                 cleanups, logFile, ioFailed, ivars>>
  /\ UNCHANGED not_nvars

\* main: read the company file; without companies main returns, otherwise the
\* pipeline object is built.
MainReadCompanies ==
  /\ npc = "read"
  /\ \E n \in 0..MaxCompanies :
       /\ companies' = n
       /\ npc' = IF n = 0 THEN "exit" ELSE "initialize"
  /\ UNCHANGED <<env, errors, sample_written, dirs_ensured, browser_started,
                 processed, cleanups, logFile, ioFailed, ivars>>
  /\ UNCHANGED not_nvars

\* main: pipeline.initialize() starts the browser and builds the modules; a
\* failure of either makes main go to the cleanup.  initialize() catches
\* Exception only, so an interrupt leaves it for the handler of main.
MainInitialize ==
  /\ npc = "initialize"
  /\ \E outcome \in {"ok", "browser_failed", "modules_failed", "interrupt"} :
       /\ outcome = "interrupt" => interrupts < MaxInterrupts
       /\ browser_started' = (outcome \in {"ok", "modules_failed"})
       /\ npc' = IF outcome = "ok" THEN "run" ELSE "cleanup"
       /\ interrupts' = IF outcome = "interrupt" THEN interrupts + 1 ELSE interrupts
  /\ UNCHANGED <<env, errors, sample_written, dirs_ensured, companies,
                 processed, cleanups, logFile, ioFailed, late>>
  /\ UNCHANGED not_nvars

\* pipeline.run: the next company is processed; its processing calls
\* add_application for a company-level or a job-level row.
MainRunCompany ==
  /\ npc = "run"
  /\ processed < companies
  /\ processed' = processed + 1
  /\ late' = IF interrupts > 0 THEN late + 1 ELSE late
  /\ \E st \in {STATUS_NO_CAREER_PAGE, STATUS_ERROR}, io \in IOOutcomes :
       /\ logFile' = add_application(logFile, Row(processed + 1, 0, st, ""), io)
       /\ ioFailed' = (ioFailed \/ io # "ok")
  /\ UNCHANGED <<npc, env, errors, sample_written, dirs_ensured,
                 browser_started, companies, cleanups, interrupts>>
  /\ UNCHANGED not_nvars

\* Where the program is when an interrupt is delivered during the processing
\* of a company: at an ordinary suspension point, inside pd.read_excel of
\* add_application, or inside a selector wait of FormFiller._submit_form.
InterruptPoints == {"await", "read_excel", "submit_selector"}

\* The statement interrupted is in the body of a try with a bare "except:",
\* which catches KeyboardInterrupt and CancelledError as well.
caught_by_bare_except(at) == at \in {"read_excel", "submit_selector"}

\* An interrupt is delivered while a company is being processed.  Every
\* handler on the way to main catches Exception only, except the two bare
\* ones: there the interrupt is taken for a failed read or a missing selector
\* and the processing goes on; elsewhere it reaches the handler of main.
MainInterrupt ==
  /\ npc = "run"
  /\ processed < companies
  /\ interrupts < MaxInterrupts
  /\ interrupts' = interrupts + 1
  /\ \E at \in InterruptPoints :
       IF caught_by_bare_except(at)
         THEN /\ processed' = processed + 1
              /\ \E st \in {STATUS_NO_CAREER_PAGE, STATUS_ERROR}, io \in IOOutcomes :
                   /\ at = "read_excel" => io = "read_fail"
                   /\ logFile' = add_application(logFile, Row(processed + 1, 0, st, ""), io)
                   /\ ioFailed' = (ioFailed \/ io # "ok")
              /\ UNCHANGED npc
         ELSE /\ npc' = "cleanup"
              /\ UNCHANGED <<processed, logFile, ioFailed>>
  /\ UNCHANGED <<env, errors, sample_written, dirs_ensured, browser_started,
                 companies, cleanups, late>>
  /\ UNCHANGED not_nvars

\* main: run() returns after the last company.
MainRunEnd ==
  /\ npc = "run"
  /\ processed = companies
  /\ npc' = "cleanup"
  /\ UNCHANGED <<env, errors, sample_written, dirs_ensured, browser_started,
                 companies, processed, cleanups, logFile, ioFailed, ivars>>
  /\ UNCHANGED not_nvars

\* main: an exception leaves run() (from the summary or the statistics, which
\* are outside the per-company try) and is caught by "except Exception".
MainFatal ==
  /\ npc = "run"
  /\ npc' = "cleanup"
  /\ UNCHANGED <<env, errors, sample_written, dirs_ensured, browser_started,
                 companies, processed, cleanups, logFile, ioFailed, ivars>>
  /\ UNCHANGED not_nvars

\* main: finally, pipeline.cleanup() closes the browser.
MainCleanup ==
  /\ npc = "cleanup"
  /\ cleanups' = cleanups + 1
  /\ npc' = "exit"
  /\ UNCHANGED <<env, errors, sample_written, dirs_ensured, browser_started,
                 companies, processed, logFile, ioFailed, ivars>>
  /\ UNCHANGED not_nvars

NextMain ==
  \/ MainStart
  \/ MainValidate
  \/ MainReadCompanies
  \/ MainInitialize
  \/ MainRunCompany
  \/ MainInterrupt
  \/ MainRunEnd
  \/ MainFatal
  \/ MainCleanup

SpecMain == InitMain /\ [][NextMain]_vars

\* ------------------------------------------- one attempt on a given page
\* What a page answers during one attempt: whether the navigation succeeds,
\* whether the page has a file input, whether the first and the second read
\* of its content fail, the mapped fields (value non-empty, some selector
\* resolves), whether the mapping fails, whether the upload succeeds and which
\* submit pattern is the first with a visible and enabled element (0: none).
PageFields == [value : BOOLEAN, resolves : BOOLEAN]

PageBehaviours ==
  [nav : BOOLEAN, has_upload : BOOLEAN, read_err : [1..2 -> BOOLEAN],
   fields : UNION {[1..k -> PageFields] : k \in 0..MaxFields},
   mapping_err : BOOLEAN, upload_ok : BOOLEAN,
   submit : {0, 1, NumSubmitPatterns}]

\* What detect_application_type can return.
AppTypes == KnownSystems \cup {"taleo", "custom", "unknown"}

\* The k-th analyze_page of the attempt.
analysis_of(page, k) == analyze_page(page.has_upload, page.read_err[k])

\* _fill_adaptive on a page whose analysis is given: the fields with a value
\* and a resolving selector are typed into, the resume is uploaded if wanted,
\* the submit control is searched; the result and the actions in order.
fill_adaptive(analysis, page, resume) ==
  LET mapping == get_field_mapping(page.fields, page.mapping_err)
      typed == {i \in DOMAIN mapping : mapping[i].value /\ mapping[i].resolves}
      upload == upload_wanted(resume, analysis)
      uploaded == upload /\ page.upload_ok
      found == page.submit > 0
      n == Cardinality(typed) + (IF uploaded THEN 1 ELSE 0)
  IN [result |-> [status |-> IF found THEN "success" ELSE "manual_required",
                  reason |-> "", has_fields_filled |-> TRUE,
                  fields_filled |-> n, submitted |-> found],
      actions |-> [i \in 1..Cardinality(typed) |-> "human_type"]
                    \o (IF ~upload THEN <<>>
                        ELSE IF page.upload_ok THEN <<"set_input_files">>
                        ELSE <<"upload_failed">>)
                    \o (IF found THEN on_submit_found(page.submit) ELSE <<>>)]

\* Variant of fill_known_system: the known systems take no resume.
fill_known_system_NoResume(system_type, page, resume) ==
  fill_adaptive(analysis_of(page, 2), page, FALSE)

\* _fill_known_system and _fill_greenhouse / _fill_lever / _fill_workday:
\* the page is analyzed once more and handed to _fill_adaptive.
fill_known_system(system_type, page, resume) ==
  fill_adaptive(analysis_of(page, 2), page, resume)

\* fill_application on a page for which detect_application_type gives
\* app_type.
fill_application(app, page, resume) ==
  IF ~page.nav
    THEN [result |-> FailedResult("navigation_failed"), actions |-> <<>>]
  ELSE IF app \in KnownSystems
    THEN fill_known_system(app, page, resume)
  ELSE fill_adaptive(analysis_of(page, 1), page, resume)

InitKnown ==
  /\ PipelineIdle
  /\ AdaptiveIdle
  /\ MapperIdle
  /\ FilterIdle
  /\ LogIdle
  /\ MainIdle
  /\ AnalyzerIdle
  /\ FinderIdle
  /\ ScraperIdle
  /\ RetryIdle
  /\ kpc = "call"
  /\ kpage \in PageBehaviours
  /\ ktype \in AppTypes
  /\ kresume \in BOOLEAN
  /\ kout = [actions |-> <<>>]

\* The caller: result = await filler.fill_application(url, user_data, path)
FillApplicationOnPage ==
  /\ kpc = "call"
  /\ kout' = fill_application(ktype, kpage, kresume)
  /\ kpc' = "done"
  /\ UNCHANGED <<kpage, ktype, kresume>>
  /\ UNCHANGED not_kvars

NextKnown ==
  \/ FillApplicationOnPage

SpecKnown == InitKnown /\ [][NextKnown]_vars

\* ---------------------------------------------------------- page analyzer
\* A page in the browser.
AnalyzerPages == [url : Urls, html : Htmls, has_upload : BOOLEAN]

\* What goes wrong during the two calls: get_page_url fails, get_page_content
\* fails in detect_application_type or in analyze_page, or an exception is
\* raised inside one of the two.
AnalyzerFailures ==
  [url : BOOLEAN, content : BOOLEAN, content2 : BOOLEAN,
   detect_err : BOOLEAN, analyze_err : BOOLEAN]

InitAnalyzer ==
  /\ PipelineIdle
  /\ AdaptiveIdle
  /\ MapperIdle
  /\ FilterIdle
  /\ LogIdle
  /\ MainIdle
  /\ KnownIdle
  /\ FinderIdle
  /\ ScraperIdle
  /\ RetryIdle
  /\ zpc = "detect"
  /\ zpage \in AnalyzerPages
  /\ zfails \in AnalyzerFailures
  /\ ztype = ""
  /\ zanalysis = NoAnalysis

\* The caller: app_type = await self.analyzer.detect_application_type()
AnalyzerDetect ==
  /\ zpc = "detect"
  /\ ztype' = detect_application_type(get_page_url(zpage.url, zfails.url),
                                      get_page_content(zpage.html, zfails.content),
                                      zfails.detect_err)
  /\ zpc' = "analyze"
  /\ UNCHANGED <<zpage, zfails, zanalysis>>
  /\ UNCHANGED not_zvars

\* The caller: page_analysis = await self.analyzer.analyze_page(); the file
\* inputs are those of the content that was read, none if the read failed.
AnalyzerAnalyze ==
  /\ zpc = "analyze"
  /\ zanalysis' = analyze_page(zpage.has_upload /\ get_page_content(zpage.html, zfails.content2) = zpage.html,
                               zfails.analyze_err)
  /\ zpc' = "done"
  /\ UNCHANGED <<zpage, zfails, ztype>>
  /\ UNCHANGED not_zvars

NextAnalyzer ==
  \/ AnalyzerDetect
  \/ AnalyzerAnalyze

SpecAnalyzer == InitAnalyzer /\ [][NextAnalyzer]_vars

\* ---------------------------------------------------------- career finder
\* career_finder.py: _try_common_career_urls probes twelve paths; a probed
\* page is accepted if it contains two career keywords
NumCommonPaths == 12
MinKeywords == 2

\* CareerFinder._contains_career_keywords, on the number of distinct career
\* keywords in the content.
contains_career_keywords(keyword_count) == keyword_count >= MinKeywords

InitFinder ==
  /\ PipelineIdle
  /\ AdaptiveIdle
  /\ MapperIdle
  /\ FilterIdle
  /\ LogIdle
  /\ MainIdle
  /\ KnownIdle
  /\ AnalyzerIdle
  /\ ScraperIdle
  /\ RetryIdle
  /\ cpc = "navigate"
  /\ cpath = 0
  /\ ctried = <<>>
  /\ found_url = NoUrl
  /\ cfailed = {}

\* find_career_page: load the homepage; if that fails None is returned at
\* once.
FinderNavigate ==
  /\ cpc = "navigate"
  /\ \E success \in BOOLEAN :
       IF success
         THEN cpc' = "links" /\ UNCHANGED cfailed
         ELSE cpc' = "done" /\ cfailed' = cfailed \cup {"home"}
  /\ UNCHANGED <<cpath, ctried, found_url>>
  /\ UNCHANGED not_cvars

\* Method 1, _find_career_link_on_page: the first link with a career keyword
\* and an absolute address is returned; an exception gives None.
FinderLinkScan ==
  /\ cpc = "links"
  /\ ctried' = Append(ctried, "links")
  /\ \E outcome \in {"link", "none", "raise"} :
       /\ found_url' = IF outcome = "link" THEN [tier |-> "links", path |-> 0] ELSE NoUrl
       /\ cfailed' = IF outcome = "raise" THEN cfailed \cup {"links"} ELSE cfailed
       /\ cpc' = IF outcome = "link" THEN "done" ELSE "common"
  /\ UNCHANGED cpath
  /\ UNCHANGED not_cvars

\* Method 2, _try_common_career_urls: the base address is taken from the
\* company URL, outside of any try: an exception there reaches the handler
\* of find_career_page, which returns None.
FinderParseBase ==
  /\ cpc = "common"
  /\ cpath = 0
  /\ ctried' = Append(ctried, "common")
  /\ \E raises \in BOOLEAN :
       IF raises
         THEN cpc' = "done" /\ cfailed' = cfailed \cup {"parse"} /\ UNCHANGED cpath
         ELSE cpath' = 1 /\ UNCHANGED <<cpc, cfailed>>
  /\ UNCHANGED found_url
  /\ UNCHANGED not_cvars

\* _try_common_career_urls: probe one path. The page is accepted if the
\* navigation succeeds and the content holds enough career keywords; a failed
\* or raising navigation goes on to the next path.
FinderProbe ==
  /\ cpc = "common"
  /\ cpath > 0
  /\ \E nav \in {"ok", "fail", "raise"}, keyword_count \in 0..MinKeywords :
       IF nav = "ok" /\ contains_career_keywords(keyword_count)
         THEN /\ found_url' = [tier |-> "common", path |-> cpath]
              /\ cpc' = "done"
              /\ UNCHANGED <<cpath, cfailed>>
         ELSE /\ cfailed' = IF nav = "ok" THEN cfailed ELSE cfailed \cup {"common"}
              /\ IF cpath < NumCommonPaths
                   THEN cpath' = cpath + 1 /\ UNCHANGED cpc
                   ELSE cpc' = "search" /\ UNCHANGED cpath
              /\ UNCHANGED found_url
  /\ UNCHANGED ctried
  /\ UNCHANGED not_cvars

\* Method 3, _google_search_career_page: the first result of the same domain
\* with a career keyword; a failed navigation or an exception gives None.
FinderSearch ==
  /\ cpc = "search"
  /\ ctried' = Append(ctried, "search")
  /\ \E outcome \in {"result", "none", "fail", "raise"} :
       /\ found_url' = IF outcome = "result" THEN [tier |-> "search", path |-> 0] ELSE NoUrl
       /\ cfailed' = IF outcome \in {"fail", "raise"} THEN cfailed \cup {"search"} ELSE cfailed
  /\ cpc' = "done"
  /\ UNCHANGED cpath
  /\ UNCHANGED not_cvars

NextFinder ==
  \/ FinderNavigate
  \/ FinderLinkScan
  \/ FinderParseBase
  \/ FinderProbe
  \/ FinderSearch

SpecFinder == InitFinder /\ [][NextFinder]_vars

\* ------------------------------------------------------------ job scraper
\* The postings one strategy can find: a backend posting and a cook's.
ScrapedTexts ==
  {t \in PostingTexts : Len(t[1]) \in {4, 16}}

ScrapedLists ==
  UNION {{[i \in 1..k |-> [id |-> i, title |-> f[i][1], description |-> f[i][2],
                           relevance_score |-> 0]] :
            f \in [1..k -> ScrapedTexts]} : k \in 0..MaxScraped}

\* Variant of strategy_needed: every strategy is run.
strategy_needed_Always(found) == TRUE

\* scrape_jobs: "if not jobs:" before the second and the third strategy.
strategy_needed(found) == found = <<>>

InitScraper ==
  /\ PipelineIdle
  /\ AdaptiveIdle
  /\ MapperIdle
  /\ FilterIdle
  /\ LogIdle
  /\ MainIdle
  /\ KnownIdle
  /\ AnalyzerIdle
  /\ FinderIdle
  /\ RetryIdle
  /\ spc = "navigate"
  /\ spage \in [1..3 -> ScrapedLists]
  /\ skeywords \in {kws \in KeywordLists : Len(kws) <= 1}
  /\ sjobs = <<>>
  /\ sran = <<>>
  /\ shanded = NotHanded
  /\ sreturned = <<>>

\* scrape_jobs: load the career page; [] if that fails. Then the page is
\* scrolled and parsed and jobs = [].
ScrapeNavigate ==
  /\ spc = "navigate"
  /\ \E success \in BOOLEAN : spc' = IF success THEN "strategy1" ELSE "done"
  /\ UNCHANGED <<spage, skeywords, sjobs, sran, shanded, sreturned>>
  /\ UNCHANGED not_svars

\* scrape_jobs: jobs.extend(strategy 1)
ScrapeStrategy1 ==
  /\ spc = "strategy1"
  /\ sjobs' = sjobs \o spage[1]
  /\ sran' = Append(sran, 1)
  /\ spc' = "strategy2"
  /\ UNCHANGED <<spage, skeywords, shanded, sreturned>>
  /\ UNCHANGED not_svars

\* scrape_jobs: if not jobs: jobs.extend(strategy 2)
ScrapeStrategy2 ==
  /\ spc = "strategy2"
  /\ IF strategy_needed(sjobs)
       THEN sjobs' = sjobs \o spage[2] /\ sran' = Append(sran, 2)
       ELSE UNCHANGED <<sjobs, sran>>
  /\ spc' = "strategy3"
  /\ UNCHANGED <<spage, skeywords, shanded, sreturned>>
  /\ UNCHANGED not_svars

\* scrape_jobs: if not jobs: jobs.extend(strategy 3)
ScrapeStrategy3 ==
  /\ spc = "strategy3"
  /\ IF strategy_needed(sjobs)
       THEN sjobs' = sjobs \o spage[3] /\ sran' = Append(sran, 3)
       ELSE UNCHANGED <<sjobs, sran>>
  /\ spc' = "filter"
  /\ UNCHANGED <<spage, skeywords, shanded, sreturned>>
  /\ UNCHANGED not_svars

\* scrape_jobs: the jobs found go through _filter_relevant_jobs and the
\* relevant ones are returned.
ScrapeFilter ==
  /\ spc = "filter"
  /\ shanded' = [called |-> TRUE, jobs |-> sjobs]
  /\ sreturned' = filter_relevant_jobs(sjobs, skeywords)
  /\ spc' = "done"
  /\ UNCHANGED <<spage, skeywords, sjobs, sran>>
  /\ UNCHANGED not_svars

\* scrape_jobs: the except branch returns [].
ScrapeExcept ==
  /\ spc \in {"navigate", "strategy1", "strategy2", "strategy3", "filter"}
  /\ sreturned' = <<>>
  /\ spc' = "done"
  /\ UNCHANGED <<spage, skeywords, sjobs, sran, shanded>>
  /\ UNCHANGED not_svars

NextScraper ==
  \/ ScrapeNavigate
  \/ ScrapeStrategy1
  \/ ScrapeStrategy2
  \/ ScrapeStrategy3
  \/ ScrapeFilter
  \/ ScrapeExcept

SpecScraper == InitScraper /\ [][NextScraper]_vars

\* --------------------------------------------------------- retry wrappers
\* async_retry: the default of max_retries.
DefaultMaxRetries == 3

RetryWrappers == {"retry_action", "async_retry"}

\* The max_retries arguments: left out, or a number.
RetryArguments ==
  {NotGiven} \cup {[given |-> TRUE, value |-> n] : n \in 0..MaxRetries}

\* Python's truth value of the argument: None and 0 are false.
truthy(arg) == arg.given /\ arg.value # 0

\* The number of iterations of the loop.  retry_action: "max_retries or
\* AUTOMATION_CONFIG['max_retries']"; async_retry: the parameter, 3 by
\* default.
retries_of(wrapper, arg, configured) ==
  IF wrapper = "retry_action"
    THEN IF truthy(arg) THEN arg.value ELSE configured
    ELSE IF arg.given THEN arg.value ELSE DefaultMaxRetries

retries == retries_of(rwrapper, rpassed, rconfig)

\* 2 ** n
pow2(n) == IF n = 0 THEN 1 ELSE LET half[i \in 0..n] == IF i = 0 THEN 1 ELSE 2 * half[i - 1] IN half[n]

\* wait_time = delay * (2 ** attempt)
wait_time(delay, attempt) == delay * pow2(attempt)

InitRetry ==
  /\ PipelineIdle
  /\ AdaptiveIdle
  /\ MapperIdle
  /\ FilterIdle
  /\ LogIdle
  /\ MainIdle
  /\ KnownIdle
  /\ AnalyzerIdle
  /\ FinderIdle
  /\ ScraperIdle
  /\ rpc = "loop"
  /\ rwrapper \in RetryWrappers
  /\ rpassed \in RetryArguments
  /\ rconfig \in 1..MaxRetries
  /\ rdelay \in 1..MaxDelay
  /\ rattempt = 0
  /\ routcomes = <<>>
  /\ rsleeps = <<>>
  /\ rresult = "none"

\* The action is invoked and succeeds: its result is returned.
RetryAttemptOk ==
  /\ rpc = "loop"
  /\ rattempt < retries
  /\ routcomes' = Append(routcomes, "ok")
  /\ rresult' = "value"
  /\ rpc' = "done"
  /\ UNCHANGED <<rwrapper, rpassed, rconfig, rdelay, rattempt, rsleeps>>
  /\ UNCHANGED not_rvars

\* The action is invoked and raises: before the last attempt the wrapper
\* sleeps and goes on, at the last attempt it raises the exception again.
RetryAttemptFail ==
  /\ rpc = "loop"
  /\ rattempt < retries
  /\ routcomes' = Append(routcomes, "fail")
  /\ IF rattempt < retries - 1
       THEN /\ rsleeps' = Append(rsleeps, wait_time(rdelay, rattempt))
            /\ rattempt' = rattempt + 1
            /\ UNCHANGED <<rpc, rresult>>
       ELSE /\ rresult' = "raised"
            /\ rpc' = "done"
            /\ UNCHANGED <<rsleeps, rattempt>>
  /\ UNCHANGED <<rwrapper, rpassed, rconfig, rdelay>>
  /\ UNCHANGED not_rvars

\* The loop has no iteration left (range(0)): the wrapper returns None.
RetryLoopEnd ==
  /\ rpc = "loop"
  /\ rattempt >= retries
  /\ rresult' = "returned_none"
  /\ rpc' = "done"
  /\ UNCHANGED <<rwrapper, rpassed, rconfig, rdelay, rattempt, routcomes, rsleeps>>
  /\ UNCHANGED not_rvars

NextRetry ==
  \/ RetryAttemptOk
  \/ RetryAttemptFail
  \/ RetryLoopEnd

SpecRetry == InitRetry /\ [][NextRetry]_vars

\* ------------------------------------------------------------------ claims
\* process_company has returned for company idx.
Returned == pc \in {"returned", "done"} /\ idx > 0

\* The add_application calls made for the current company, in order.
Adds == SelectSeq(trace, LAMBDA e : e.ev = "add_application")

\* The persisted rows of company c, in order.
CompanyRows(c) == SelectSeq(logFile, LAMBDA r : r.company = c)

\* C1: a company whose processing raises an exception that reaches
\* process_company (at the career search, the email extraction, the scraping or
\* the job loop) gets exactly one STATUS_ERROR row, logged last, and the batch
\* goes on: process_company is invoked exactly once per company, in list order,
\* and the run ends only after the last company.
C1_ErrorRowAndBatchContinues ==
  /\ invoked = [i \in 1..idx |-> i]
  /\ pc = "done" => Len(invoked) = numCompanies
  /\ (pc = "returned" /\ idx < numCompanies) => ENABLED RunLoop
  /\ raisedAt # "" =>
       /\ Returned
       /\ result.status = STATUS_ERROR
       /\ Len(SelectSeq(Adds, LAMBDA e : e.status = STATUS_ERROR)) = 1
       /\ trace[Len(trace)] = Ev("add_application", 0, STATUS_ERROR)
       /\ ~ioFailed =>
            Len(SelectSeq(CompanyRows(idx), LAMBDA r : r.status = STATUS_ERROR)) = 1

\* C1 witness: the first company failed with an error row, and the second
\* company has been processed too.
C1_Witness ==
  /\ pc = "done"
  /\ invoked = <<1, 2>>
  /\ \E i \in DOMAIN logFile :
       logFile[i].company = 1 /\ logFile[i].status = STATUS_ERROR
  /\ Len(trace) > 1

\* C2: when find_career_page returns no URL the company gets exactly one row,
\* STATUS_NO_CAREER_PAGE, process_company returns with jobs_found = 0, and no
\* email extraction, scraping, customization or form filling takes place.
C2_NoCareerPageStops ==
  (Len(trace) > 0 /\ trace[1] = Ev("find_career", 0, "none")) =>
    /\ Returned
    /\ trace = <<Ev("find_career", 0, "none"),
                 Ev("add_application", 0, STATUS_NO_CAREER_PAGE)>>
    /\ result.status = STATUS_NO_CAREER_PAGE
    /\ result.jobs_found = 0
    /\ jobs = <<>> /\ jobOutcome = <<>>
    /\ ~ioFailed => CompanyRows(idx) = <<Row(idx, 0, STATUS_NO_CAREER_PAGE, "")>>

\* C2 witness: a company without a career page has returned.
C2_Witness ==
  /\ pc = "returned"
  /\ trace[1] = Ev("find_career", 0, "none")
  /\ ~ioFailed

\* C3: when the career page is found and scrape_jobs returns no job the
\* company gets exactly one row, STATUS_NO_JOBS, and process_company stops:
\* no job is processed, no resume customized, no form filled.
C3_NoJobsStops ==
  (\E i \in DOMAIN trace : trace[i] = Ev("scrape_jobs", 0, "empty")) =>
    /\ Returned
    /\ trace = <<Ev("find_career", 0, "found"), Ev("extract_emails", 0, "ok"),
                 Ev("scrape_jobs", 0, "empty"),
                 Ev("add_application", 0, STATUS_NO_JOBS)>>
    /\ result.status = STATUS_NO_JOBS
    /\ result.jobs_found = 0
    /\ jobOutcome = <<>>
    /\ ~ioFailed => CompanyRows(idx) = <<Row(idx, 0, STATUS_NO_JOBS, "")>>

\* C3 witness: a company with a career page and no job has returned.
C3_Witness ==
  /\ pc = "returned"
  /\ career_url
  /\ Len(trace) >= 3 /\ trace[3] = Ev("scrape_jobs", 0, "empty")
  /\ ~ioFailed

\* The steps of job j of the current company, in order.
JobSteps(j) ==
  LET evs == SelectSeq(trace, LAMBDA e : e.job = j /\ e.ev # "job_loop")
  IN [i \in DOMAIN evs |-> evs[i].ev]

C5_EveryTerminalStateLogged ==
  /\ Returned => \E i \in DOMAIN logFile : logFile[i].company = idx
  /\ (pc = "job_loop" /\ jobIdx > 0) =>
       \E i \in DOMAIN logFile :
         logFile[i].company = idx /\ logFile[i].job = jobIdx

\* C6: every row of the log has one of the six statuses, and a
\* STATUS_SUCCESS row, or a company result of STATUS_SUCCESS, exists only for
\* a company one of whose forms had its submit control clicked.
C6_SuccessMeansSubmitted ==
  /\ \A i \in DOMAIN logFile :
       /\ logFile[i].status \in Statuses
       /\ logFile[i].status = STATUS_SUCCESS => logFile[i].company \in clicked
  /\ (Returned /\ result.status = STATUS_SUCCESS) => idx \in clicked

\* C7: when process_company returns from the job loop, applications_submitted
\* is the number of jobs whose process_job result reported success, and the
\* status is STATUS_SUCCESS iff that number is positive, STATUS_FAILED otherwise.
C7_CompanyStatusFromJobs ==
  (Returned /\ Len(jobs) > 0 /\ raisedAt = "") =>
    LET n == Cardinality({i \in DOMAIN jobOutcome : jobOutcome[i].success}) IN
    /\ Len(jobOutcome) = Len(jobs)
    /\ result.applications_submitted = n
    /\ result.status = IF n > 0 THEN STATUS_SUCCESS ELSE STATUS_FAILED
    /\ result.jobs_found = Len(jobs)

\* C7 witness: a company with two jobs, of which only the second succeeded,
\* has returned.
C7_Witness ==
  /\ pc = "returned"
  /\ raisedAt = ""
  /\ Len(jobOutcome) = 2
  /\ ~jobOutcome[1].success /\ jobOutcome[1].form.manual_required
  /\ jobOutcome[2].success

\* C8: with the --test flag no submit control is ever clicked.
C8_TestFlagNeverSubmits ==
  argsTest =>
    /\ clicked = {}
    /\ \A i \in DOMAIN trace : trace[i].ev # "submit_click"

\* C9: in test mode no job is reported with success, no row has
\* STATUS_SUCCESS and applications_submitted stays 0.
C9_TestModeOnlyManual ==
  test_mode =>
    /\ \A i \in DOMAIN logFile : logFile[i].status # STATUS_SUCCESS
    /\ \A i \in DOMAIN jobOutcome : ~jobOutcome[i].success
    /\ result.applications_submitted = 0

UploadFailed == \E i \in DOMAIN atrace : atrace[i] = "upload_failed"

\* C11: the result of fill_application has status 'success' only when a
\* visible and enabled submit target was found, 'manual_required' whenever
\* _fill_adaptive returns without a submit target or after a failed resume
\* upload, and 'failed' only after a navigation failure or an exception.
C11_AdaptiveResultStatus ==
  apc = "done" =>
    /\ aresult.status \in {"success", "manual_required", "failed"}
    /\ aresult.status = "success" => submit_found
    /\ aresult.status = "failed" =>
         aresult.reason \in {"navigation_failed", "exception"}
    /\ (aresult.has_fields_filled /\ (~submit_found \/ UploadFailed)) =>
         aresult.status = "manual_required"

\* C12: every result returned by fill_application carries a fields_filled
\* count, the 'failed' results included.
C12_EveryResultHasFieldsFilled ==
  apc = "done" => aresult.has_fields_filled

\* C13: after a failed navigation fill_application has returned
\* failed / navigation_failed and nothing but the navigation was done: no type
\* detection, page analysis, field mapping, typing, upload or submit search.
C13_NavigationFailureStops ==
  aresult.reason = "navigation_failed" =>
    /\ apc = "done"
    /\ aresult.status = "failed"
    /\ atrace = <<"navigate">>
    /\ app_type = "" /\ page_analysis = NoAnalysis
    /\ field_mapping = <<>> /\ filled_count = 0
    /\ patternIdx = 0 /\ ~submit_found

\* C13 witness: an attempt with a resume has ended by a failed navigation.
C13_Witness ==
  /\ apc = "done"
  /\ resume_path
  /\ aresult = FailedResult("navigation_failed")
  /\ atrace = <<"navigate">>

\* The composite of an input built from all four of id, name, placeholder and
\* aria label.
composite_of_all(inp) ==
  lower(inp.id \o <<" ">> \o inp.name \o <<" ">> \o inp.placeholder
        \o <<" ">> \o inp.aria_label)

\* C14: every input with an id or a name gets the first category, in the
\* order email, phone, first name, last name, full name, linkedin, portfolio,
\* address, experience, that has a keyword in the lowercase composite of id,
\* name, placeholder and aria label; email wins over phone, and a keyword that
\* occurs only in the name decides also when a keyword-free id is present.
C14_FirstCategoryOfComposite ==
  \A i \in DOMAIN mhist :
    LET inp == mhist[i].input IN
    (inp.id # <<>> \/ inp.name # <<>>) =>
      /\ mhist[i].category = classify(composite_of_all(inp))
      /\ (contains(composite_of_all(inp), <<"e", "m", "a", "i", "l">>)
            => mhist[i].category = "email")

\* Positions <<i, j>> of the whitespace-separated tokens of a name.
TokenSpans(name) ==
  {sp \in (1..Len(name)) \X (1..Len(name)) :
     /\ sp[1] <= sp[2]
     /\ \A k \in sp[1]..sp[2] : name[k] \notin Whitespace
     /\ (sp[1] = 1 \/ name[sp[1] - 1] \in Whitespace)
     /\ (sp[2] = Len(name) \/ name[sp[2] + 1] \in Whitespace)}

\* C15: a first-name field gets the first whitespace-separated token of the
\* user's name, a last-name field the last token when the name has more than
\* one token and the empty string when it has one; "Jane Q Public" gives
\* "Jane" and "Public", "Madonna" gives the last name "".
C15_NameSplitting ==
  \A i \in DOMAIN mhist :
    LET h == mhist[i]
        spans == TokenSpans(user_name)
    IN /\ h.raised => spans = {}
       /\ (h.category = "first" /\ ~h.raised) =>
            /\ \E sp \in spans :
                 /\ \A o \in spans : sp[1] <= o[1]
                 /\ h.value = SubSeq(user_name, sp[1], sp[2])
            /\ user_name = <<"J", "a", "n", "e", " ", "Q", " ", "P", "u", "b", "l", "i", "c">> => h.value = <<"J", "a", "n", "e">>
       /\ h.category = "last" =>
            /\ IF Cardinality(spans) > 1
                 THEN \E sp \in spans :
                        /\ \A o \in spans : sp[1] >= o[1]
                        /\ h.value = SubSeq(user_name, sp[1], sp[2])
                 ELSE h.value = <<>>
            /\ user_name = <<"J", "a", "n", "e", " ", "Q", " ", "P", "u", "b", "l", "i", "c">> => h.value = <<"P", "u", "b", "l", "i", "c">>
            /\ user_name = <<"M", "a", "d", "o", "n", "n", "a">> => h.value = <<>>

\* C15 witness: a mapping for a single-token name with a first-name and a
\* last-name field has returned.
C15_Witness ==
  /\ mpc = "done"
  /\ user_name = <<"M", "a", "d", "o", "n", "n", "a">>
  /\ \E i, j \in DOMAIN mhist :
       /\ mhist[i].category = "first" /\ mhist[i].value = <<"M", "a", "d", "o", "n", "n", "a">>
       /\ mhist[j].category = "last" /\ mhist[j].value = <<>>
  /\ Len(field_map) = 2

\* Keyword k occurs, case-insensitively, in the text of posting j.
KeywordOccurs(j, k) ==
  \E a \in 1..(Len(j.title) + 1 + Len(j.description)) :
    LET text == j.title \o <<" ">> \o j.description
    IN /\ a + Len(k) - 1 <= Len(text)
       /\ \A b \in 1..Len(k) : lower_char(text[a + b - 1]) = lower_char(k[b])

\* C16: with a non-empty keyword list _filter_relevant_jobs returns exactly
\* the postings in which at least one keyword occurs case-insensitively, each
\* once and with the number of occurring keywords as relevance score, ordered
\* by score descending and, for equal scores, in scraped order; the posting
\* "Backend Engineer" is kept for the keyword "backend".
C16_RelevanceFilter ==
  (fpc # "call" /\ keywords # <<>>) =>
    /\ {relevant_jobs[i].id : i \in DOMAIN relevant_jobs} =
         {p \in DOMAIN postings :
            \E k \in DOMAIN keywords : KeywordOccurs(postings[p], keywords[k])}
    /\ \A i \in DOMAIN relevant_jobs :
         LET r == relevant_jobs[i] IN
         /\ r.title = postings[r.id].title
         /\ r.description = postings[r.id].description
         /\ r.relevance_score =
              Cardinality({k \in DOMAIN keywords : KeywordOccurs(r, keywords[k])})
         /\ r.relevance_score >= 1
    /\ \A i, j \in DOMAIN relevant_jobs :
         i < j =>
           /\ relevant_jobs[i].relevance_score >= relevant_jobs[j].relevance_score
           /\ relevant_jobs[i].relevance_score = relevant_jobs[j].relevance_score
                => relevant_jobs[i].id < relevant_jobs[j].id
    /\ (keywords = <<<<"b", "a", "c", "k", "e", "n", "d">>>> /\ Len(postings) > 0 /\ postings[1].title = <<"B", "a", "c", "k", "e", "n", "d", " ", "E", "n", "g", "i", "n", "e", "e", "r">>)
         => (Len(relevant_jobs) > 0 /\ relevant_jobs[1].id = 1)

\* C16 witness: a posting matching nothing was dropped, and of the kept
\* postings a later one with more matching keywords was moved to the front.
C16_Witness ==
  /\ fpc = "done"
  /\ Len(postings) = 3
  /\ Len(relevant_jobs) = 2
  /\ relevant_jobs[1].id = 3 /\ relevant_jobs[1].relevance_score = 2
  /\ relevant_jobs[2].relevance_score = 1

\* The row a submitted application is expected to be read back as.
ExpectedRow(app) ==
  [app EXCEPT !.description =
     IF app.description <= DescLimit THEN app.description ELSE DescLimit]

\* C17: starting from an empty log, after N add_application calls, whatever
\* the outcome of the file reads and writes in between, the file holds exactly
\* N rows, in call order, equal to the submitted data with the description cut
\* to 500 characters, and reading the log back yields these rows.
C17_AppendNReadN ==
  /\ Len(logFile) = Len(submitted)
  /\ \A i \in DOMAIN submitted : logFile[i] = ExpectedRow(submitted[i])
  /\ lpc = "read" => readback = [i \in DOMAIN submitted |-> ExpectedRow(submitted[i])]

\* The rows of the log with status st.
RowsWithStatus(st) == Cardinality({i \in DOMAIN logFile : logFile[i].status = st})

\* C18: the statistics computed at the end of a run have one count for each
\* of the six statuses, each the number of log rows with that status, so that
\* the six counts add up to the number of rows.
C18_StatisticsCountSixStatuses ==
  (pc = "done" /\ stats.read /\ ~stats.empty) =>
    /\ {"successful", "manual_required", "failed", "no_jobs", "no_career_page",
        "errors"} \subseteq DOMAIN stats
    /\ stats.successful = RowsWithStatus(STATUS_SUCCESS)
    /\ stats.manual_required = RowsWithStatus(STATUS_MANUAL)
    /\ stats.failed = RowsWithStatus(STATUS_FAILED)
    /\ stats.no_jobs = RowsWithStatus(STATUS_NO_JOBS)
    /\ stats.no_career_page = RowsWithStatus(STATUS_NO_CAREER_PAGE)
    /\ stats.errors = RowsWithStatus(STATUS_ERROR)
    /\ stats.successful + stats.manual_required + stats.failed + stats.no_jobs
         + stats.no_career_page + stats.errors = stats.total_applications

\* The environment lacks the company file, the base resume, the API key of the
\* chosen provider, or names an unknown provider.
EnvironmentInvalid ==
  \/ ~env.csv_exists
  \/ ~env.resume_exists
  \/ env.provider = "openai" /\ ~env.openai_key
  \/ env.provider = "gemini" /\ ~env.gemini_key
  \/ env.provider \notin {"openai", "gemini"}

CustomizeOutcome(j) ==
  LET i == CHOOSE i \in DOMAIN trace : trace[i].ev = "customize" /\ trace[i].job = j
  IN trace[i].status

\* The resume path to be used for job j: the new PDF if one was generated,
\* the base resume otherwise.
ExpectedResume(j) == IF CustomizeOutcome(j) = "custom" THEN "custom" ELSE "base"

\* C20: for every job, the resume path passed to the form filler and written
\* to the job's log row is the base resume path whenever customize_resume was
\* disabled or failed, and the path of the generated PDF otherwise; it is never
\* absent.
C20_ResumeFallback ==
  /\ pc \in {"fill_form", "log_job"} => customized_resume = ExpectedResume(jobIdx)
  /\ \A i \in DOMAIN trace :
       trace[i].ev = "fill_form" =>
         /\ trace[i].status \in {"base", "custom"}
         /\ trace[i].status = ExpectedResume(trace[i].job)
  /\ \A i \in DOMAIN logFile :
       logFile[i].job > 0 => logFile[i].resume \in {"base", "custom"}
  /\ (pc = "job_loop" /\ jobIdx > 0 /\ jobIdx \notin jobRaised /\ ~ioFailed) =>
       /\ logFile # <<>>
       /\ logFile[Len(logFile)].job = jobIdx
       /\ logFile[Len(logFile)].resume = ExpectedResume(jobIdx)

\* C20 witness: the customization of a job failed, its form was filled with
\* the base resume and its row names the base resume.
C20_Witness ==
  /\ pc = "job_loop"
  /\ jobIdx = 1 /\ jobIdx \notin jobRaised /\ ~ioFailed
  /\ CustomizeOutcome(1) = "none"
  /\ \E i \in DOMAIN trace : trace[i] = Ev("fill_form", 1, "base")
  /\ logFile[Len(logFile)].resume = "base"

\* pipeline.initialize() has been attempted: main went past the company file
\* with at least one company.
InitializationAttempted == companies > 0 /\ npc \in {"run", "cleanup", "exit"}

\* C21: once the initialization of the pipeline has been attempted, cleanup
\* runs exactly once on every way the run can end (never twice, and once when
\* main has returned), and after an interrupt no further company is
\* processed.
C21_CleanupOnceAndInterruptStops ==
  /\ cleanups <= 1
  /\ (InitializationAttempted /\ npc = "exit") => cleanups = 1
  /\ interrupts > 0 => late = 0

\* The stage an action of the attempt belongs to; the second analysis of the
\* page is the first step of a known-system fill.
stage_at(i) ==
  LET a == atrace[i]
  IN CASE a = "navigate" -> "NAVIGATED"
       [] a = "detect_application_type" -> "TYPE_DETECTED"
       [] a = "analyze_page" ->
            IF \E j \in 1..(i - 1) : atrace[j] = "analyze_page" THEN "FILL" ELSE "ANALYZED"
       [] a = "get_field_mapping" -> "FILL"
       [] a \in {"set_input_files", "upload_failed"} -> "FILE_UPLOAD_ATTEMPTED"
       [] OTHER -> ""

\* The stages the attempt has passed, in order: those of its actions, the
\* submit search once it has begun, and the final stage of a returned result.
Stages ==
  LET marks == [i \in DOMAIN atrace |-> stage_at(i)]
      kept == {i \in DOMAIN atrace :
                 marks[i] # "" /\ (i > 1 => marks[i - 1] # marks[i])}
      n == Cardinality(kept)
      nth(k) == CHOOSE i \in kept : Cardinality({j \in kept : j < i}) = k - 1
  IN [k \in 1..n |-> marks[nth(k)]]
       \o (IF patternIdx > 0 THEN <<"SUBMIT_SEARCH">> ELSE <<>>)
       \o (IF apc = "done" /\ aresult.status = "success"
             THEN <<"AWAITING_MANUAL_REVIEW">>
           ELSE IF apc = "done" /\ aresult.status = "manual_required"
             THEN <<"MANUAL_REQUIRED">>
           ELSE <<>>)

IsPrefix(s, t) == Len(s) <= Len(t) /\ SubSeq(t, 1, Len(s)) = s

FinalStages == {"AWAITING_MANUAL_REVIEW", "MANUAL_REQUIRED"}

\* The navigation of the attempt has succeeded.
NavigationSucceeded == apc # "navigate" /\ aresult.reason # "navigation_failed"

\* C22 as stated: an attempt whose navigation succeeds passes the stages
\* NAVIGATED, ANALYZED, TYPE_DETECTED, fill, FILE_UPLOAD_ATTEMPTED,
\* SUBMIT_SEARCH in this order, skips none, and ends in
\* AWAITING_MANUAL_REVIEW or MANUAL_REQUIRED.
C22_StagesInStatedOrder ==
  NavigationSucceeded =>
    \E end \in FinalStages :
      LET order == <<"NAVIGATED", "ANALYZED", "TYPE_DETECTED", "FILL",
                     "FILE_UPLOAD_ATTEMPTED", "SUBMIT_SEARCH", end>>
      IN /\ IsPrefix(Stages, order)
         /\ apc = "done" => Stages = order

\* The order of the stages in fill_application and _fill_adaptive.
CodeOrder(upload, end) ==
  <<"NAVIGATED", "TYPE_DETECTED", "ANALYZED", "FILL">>
    \o (IF upload THEN <<"FILE_UPLOAD_ATTEMPTED">> ELSE <<>>)
    \o <<"SUBMIT_SEARCH", end>>

\* C22 amended: an attempt whose navigation succeeds passes the stages
\* NAVIGATED, TYPE_DETECTED, ANALYZED, fill, FILE_UPLOAD_ATTEMPTED (this one
\* exactly when a resume path was given and the analysis reports an upload
\* control), SUBMIT_SEARCH in this order; an attempt that returns 'success' or
\* 'manual_required' has passed all of them and ends in AWAITING_MANUAL_REVIEW
\* or MANUAL_REQUIRED respectively, and one that returns 'failed' has stopped
\* after a part of them.
C22_StagesInCodeOrder ==
  NavigationSucceeded =>
    \E end \in FinalStages :
      LET order == CodeOrder(resume_path /\ page_analysis.has_file_upload, end)
      IN /\ IsPrefix(Stages, order)
         /\ apc = "done" =>
              IF aresult.status = "failed"
                THEN Len(Stages) < Len(order)
                ELSE /\ Stages = order
                     /\ end = "AWAITING_MANUAL_REVIEW" <=> aresult.status = "success"

\* C22 witness: an attempt of a known system has passed every stage, the
\* upload included, and awaits the manual review.
C22_Witness ==
  /\ apc = "done"
  /\ app_type \in KnownSystems
  /\ Stages = CodeOrder(TRUE, "AWAITING_MANUAL_REVIEW")

BrandOccurs(name) ==
  \/ str_contains(lower(zpage.url), name)
  \/ str_contains(lower(zpage.html), name)

\* C24: detect_application_type returns the first of greenhouse, lever,
\* workday, taleo, smartrecruiters, ashby whose name occurs, in any case, in
\* the URL or in the HTML of the page, 'custom' when none occurs, and always a
\* member of the eight-element set of types.
C24_FirstBrandInUrlOrHtml ==
  zpc # "detect" =>
    /\ ztype \in {"greenhouse", "lever", "workday", "taleo", "smartrecruiters",
                  "ashby", "custom", "unknown"}
    /\ (~zfails.url /\ ~zfails.content /\ ~zfails.detect_err) =>
         ztype = IF BrandOccurs(Brands.greenhouse) THEN "greenhouse"
                 ELSE IF BrandOccurs(Brands.lever) THEN "lever"
                 ELSE IF BrandOccurs(Brands.workday) THEN "workday"
                 ELSE IF BrandOccurs(Brands.taleo) THEN "taleo"
                 ELSE IF BrandOccurs(Brands.smartrecruiters) THEN "smartrecruiters"
                 ELSE IF BrandOccurs(Brands.ashby) THEN "ashby"
                 ELSE "custom"

\* C25: when reading the URL or the content of the page fails,
\* detect_application_type reports 'unknown' and analyze_page reports an
\* inventory without elements; 'unknown' is reported in that case only.
C25_ReadFailureGivesUnknown ==
  /\ (zpc # "detect" /\ (zfails.url \/ zfails.content)) => ztype = "unknown"
  /\ (zpc = "done" /\ zfails.content2) => ~zanalysis.has_file_upload
  /\ (zpc # "detect" /\ ztype = "unknown") => (zfails.url \/ zfails.content)

\* C26: find_career_page attempts its tiers in the order link scan, common
\* paths, search; it returns the URL accepted by the first tier that accepts
\* one and attempts no later tier; it signals not-found only when all three
\* tiers have been attempted and have missed, whatever navigation or network
\* failure occurred on the way, the loading of the homepage included.
C26_ThreeTiersShortCircuit ==
  /\ IsPrefix(ctried, <<"links", "common", "search">>)
  /\ (cpc = "done" /\ found_url # NoUrl) =>
       /\ ctried # <<>>
       /\ ctried[Len(ctried)] = found_url.tier
  /\ (cpc = "done" /\ found_url = NoUrl) => ctried = <<"links", "common", "search">>

\* The first strategy that finds a posting on the page, 0 if none does.
FirstProductive ==
  IF \E k \in 1..3 : spage[k] # <<>>
    THEN CHOOSE k \in 1..3 : spage[k] # <<>> /\ \A j \in 1..(k - 1) : spage[j] = <<>>
    ELSE 0

\* C27: the strategies are attempted in order, strategy k+1 only if strategy
\* k found nothing; the list handed to the relevance filter is the finding of
\* the first strategy that found something; when the filter drops all of it
\* no later strategy is tried and the scrape returns an empty list.
C27_FirstProductiveStrategyOnly ==
  /\ IsPrefix(sran, <<1, 2, 3>>)
  /\ \A i \in DOMAIN sran : \A j \in 1..(sran[i] - 1) : spage[j] = <<>>
  /\ shanded.called =>
       /\ sran = [i \in 1..(IF FirstProductive = 0 THEN 3 ELSE FirstProductive) |-> i]
       /\ shanded.jobs = IF FirstProductive = 0 THEN <<>> ELSE spage[FirstProductive]
       /\ sreturned = filter_relevant_jobs(shanded.jobs, skeywords)
       /\ (\A i \in DOMAIN shanded.jobs : match_count(shanded.jobs[i], skeywords) = 0)
            /\ skeywords # <<>> => sreturned = <<>>

\* C27 witness: the first strategy found only a posting that the filter
\* drops, the second would have found one that the filter keeps; only the
\* first was run and the scrape returned the empty list.
C27_Witness ==
  /\ spc = "done"
  /\ shanded.called
  /\ spage[1] # <<>>
  /\ filter_relevant_jobs(spage[1], skeywords) = <<>>
  /\ filter_relevant_jobs(spage[2], skeywords) # <<>>
  /\ sran = <<1>>
  /\ sreturned = <<>>

\* C28: with a non-negative max_retries passed, a retry wrapper invokes the
\* action at most max_retries times; a successful invocation is the last one
\* and its result is returned; after the k-th failed attempt (k = 0, 1, ...)
\* that is not the last allowed one it sleeps base_delay * 2^k; the failure
\* of the last allowed attempt is raised again without a sleep.
C28_AtMostMaxRetriesWithBackoff ==
  rpassed.given =>
    /\ Len(routcomes) <= rpassed.value
    /\ \A i \in DOMAIN routcomes :
         routcomes[i] = "ok" => i = Len(routcomes) /\ rpc = "done" /\ rresult = "value"
    /\ \A k \in DOMAIN rsleeps : rsleeps[k] = rdelay * (2 ^ (k - 1))
    /\ Len(rsleeps) = Cardinality({i \in DOMAIN routcomes : routcomes[i] = "fail"})
                        - (IF rresult = "raised" THEN 1 ELSE 0)
    /\ rresult = "raised" =>
         Len(routcomes) = rpassed.value /\ routcomes[Len(routcomes)] = "fail"

\* C29: get_field_mapping ends with a mapping in every case, and when the
\* user's name has no token and the inventory has a field classified as
\* first name the returned mapping is empty, the fields mapped earlier in the
\* call included.
C29_TokenlessNameDiscardsMapping ==
  LET inventory == [i \in DOMAIN mhist |-> mhist[i].input] \o inputs
      has_first == \E i \in DOMAIN inventory :
                     /\ field_id(inventory[i]) # <<>>
                     /\ classify(field_lower(inventory[i])) = "first"
  IN /\ \A i \in DOMAIN mhist : mhist[i].raised => mpc = "done" /\ i = Len(mhist)
     /\ (mpc = "done" /\ has_first /\ TokenSpans(user_name) = {}) => field_map = <<>>

\* C29 witness: with a name of blanks only an email field was mapped, then a
\* first-name field raised, and the call returned the empty mapping.
C29_Witness ==
  /\ mpc = "done"
  /\ user_name = <<" ", " ">>
  /\ Len(mhist) = 2
  /\ mhist[1].category = "email"
  /\ mhist[1].value = UserData(user_name).email
  /\ mhist[2].category = "first"
  /\ mhist[2].raised
  /\ field_map = <<>>

\* C30: in every state of process_company 0 <= applications_submitted <=
\* jobs already processed <= jobs_found, and at return applications_submitted
\* is the number of STATUS_SUCCESS rows the call appended for the company:
\* the number of its add_application calls with that status, each of which
\* leaves a row in the file when no spreadsheet operation fails.
C30_SubmittedCountBounds ==
  /\ 0 <= result.applications_submitted
  /\ result.applications_submitted <= Len(jobOutcome)
  /\ Len(jobOutcome) <= result.jobs_found
  /\ pc = "returned" =>
       /\ result.applications_submitted =
            Cardinality({i \in DOMAIN trace :
                           /\ trace[i].ev = "add_application"
                           /\ trace[i].status = STATUS_SUCCESS})
       /\ ~ioFailed =>
            result.applications_submitted =
              Cardinality({i \in DOMAIN logFile :
                             /\ logFile[i].company = idx
                             /\ logFile[i].status = STATUS_SUCCESS})

\* C30 witness: a company with two jobs has returned with one application
\* submitted and one job that failed, every row written.
C30_Witness ==
  /\ pc = "returned"
  /\ ~ioFailed
  /\ result.jobs_found = 2
  /\ Len(jobOutcome) = 2
  /\ result.applications_submitted = 1
  /\ \E i \in DOMAIN logFile :
       logFile[i].company = idx /\ logFile[i].status = STATUS_SUCCESS

====
